---- MODULE Spec2Model ----
(***************************************************************************)
(* Model of the GOST assistant backend: the topic guard (app/guard), the   *)
(* correction orchestrator (app/llm.py), its two callers (app/main.py,     *)
(* app/chat_service.py) and the embedding-model registry (app/rag.py).     *)
(*                                                                         *)
(* Text model.  A Python str is a sequence of tokens.  A token is a record *)
(* [s, up]: s is the case-folded content of the token, up tells whether    *)
(* the token carries the capitalisation written in the source (TRUE) or    *)
(* has been lower-cased (FALSE).  Cyrillic text is transliterated; the     *)
(* prefix "ru:" marks a standards designation written with the Cyrillic    *)
(* letters GOST, as opposed to the Latin spelling.  str.lower() clears up; *)
(* a re.I search looks at s only.  A regular expression is modelled by the *)
(* set of vocabulary tokens it matches (computed with Python's re on the   *)
(* original strings); matches that span two tokens are not modelled.       *)
(***************************************************************************)
EXTENDS Naturals, Integers, Sequences, FiniteSets, TLC

VARIABLES
    \* ---- guard applied to drawn inputs (SpecGuard)
    g_in,        \* arguments of the last post_guard call
    g_topic,     \* local topic of post_guard
    g_src,       \* local src of post_guard
    g_val,       \* local val of post_guard
    g_out,       \* value returned by post_guard
    g_pc,        \* "call" before post_guard has run, "returned" after
    \* ---- one query through an entry point (Spec)
    pc,          \* where the handling of the query stands
    entry,       \* "chat_endpoint" or "run_chat_sync"
    user_q,      \* local user_query of the entry point, stripped
    chunks,      \* what search_chunks returned
    messages,    \* local messages of call_llm
    calls,       \* the messages argument of every generator call made
    outcomes,    \* "ok" or "raise" for every generator call made
    answer0,     \* the text of the first generation
    verdict,     \* what post_guard returned inside call_llm
    llm_ret,     \* the (answer, usage) pair call_llm returned
    final,       \* what the entry point hands back
    request_row, \* status of the query's row in table requests, None if no row
    \* ---- search_chunks against an index (SpecSearch)
    env_model,              \* OPENAI_EMBEDDING_MODEL / EMBED_MODEL, stripped, or None
    column_dims,            \* declared width of document_chunks.embedding, NoDims if none
    rows,                   \* the rows of document_chunks joined with documents
    _DB_VECTOR_DIMS,        \* module cache of rag.py
    _EMBED_MODEL_RESOLVED,  \* module cache of rag.py
    s_pc,        \* where the search_chunks call stands
    s_args,      \* arguments of the search_chunks call
    s_db_dims,   \* local db_dims of the last _resolve_embed_model that looked
    s_model,     \* local m of _embed
    s_emb_len,   \* length of the vector the embedding service returned
    embed_calls, \* the model of every embeddings.create() call made
    dense_queries, \* the parameters of every dense query executed
    s_result,    \* ids of the chunks search_chunks returned
    s_raised,    \* the exception that left search_chunks, None if none
    s_done,      \* number of search_chunks calls finished
    \* ---- split_text_to_chunks applied to drawn inputs (SpecSplit)
    c_in,        \* arguments of the split_text_to_chunks call
    c_out,       \* the list it returned
    c_pc,        \* "call" before it has run, "returned" after
    \* ---- threads inside _resolve_embed_model at the same time (SpecResolve)
    r_pc,        \* where each thread stands
    r_dims,      \* local dims / db_dims of each thread
    r_ret,       \* the model each thread's call returned, None before
    \* ---- ingest_pdf runs against one database (SpecIngest)
    i_schema,    \* what the database enforces on documents / document_chunks
    i_docs,      \* committed rows of documents
    i_chunks,    \* committed rows of document_chunks
    i_next_id,   \* next value of the documents.id sequence
    i_started,   \* ingest_pdf calls made so far
    i_run,       \* each ingesting process: position and locals of its call
    \* ---- the web process: event loop, Telegram webhook, /chat (SpecTelegram)
    t_module,    \* the Telegram module mounted on the application
    t_secret,    \* TELEGRAM_WEBHOOK_SECRET, "" when not set
    t_log,       \* requests that reached the front end, oldest first
    t_tasks,     \* _handle_update tasks in the order of create_task
    t_mode,      \* _user_mode / USER_MODE
    t_last,      \* per user, the mode of the last mode update handed over
    t_sent,      \* sendMessage calls made
    t_chat       \* "pipeline" while chat_endpoint runs on the event loop

gvars == <<g_in, g_topic, g_src, g_val, g_out, g_pc>>
pvars == <<pc, entry, user_q, chunks, messages, calls, outcomes, answer0,
           verdict, llm_ret, final, request_row>>
svars == <<env_model, column_dims, rows, _DB_VECTOR_DIMS, _EMBED_MODEL_RESOLVED,
           s_pc, s_args, s_db_dims, s_model, s_emb_len, embed_calls, dense_queries,
           s_result, s_raised, s_done>>
cvars == <<c_in, c_out, c_pc>>
\* the variables of the parts beside the guard, the query and the search
rvars == <<r_pc, r_dims, r_ret>>
ivars == <<i_schema, i_docs, i_chunks, i_next_id, i_started, i_run>>
tvars == <<t_module, t_secret, t_log, t_tasks, t_mode, t_last, t_sent, t_chat>>
xvars == <<cvars, rvars, ivars, tvars>>
vars == <<gvars, pvars, svars, xvars>>

----------------------------------------------------------------------------
\* Bounds

\* longest used_standards list handed to the guard
MaxUsed == 2

\* most passages a search hands back
MaxChunks == 2

\* search_chunks calls made one after the other in a process
MaxSearches == 2

\* longest text handed to split_text_to_chunks, in characters
MaxTextLen == 7

\* largest max_chars handed to split_text_to_chunks
MaxMaxChars == 3

\* ingest_pdf calls made against the database
MaxIngests == 2

\* most chunks the pages of one PDF are cut into
MaxRunChunks == 2

\* batch_size handed to ingest_pdf (50 when left out)
BatchSize == 2

\* requests that reach the web process
MaxRequests == 3

----------------------------------------------------------------------------
\* Text

U(s) == [s |-> s, up |-> TRUE]
L(s) == [s |-> s, up |-> FALSE]

LowerTok(t) == [s |-> t.s, up |-> FALSE]

\* str.lower()
Lower(text) == [i \in DOMAIN text |-> LowerTok(text[i])]

\* re.search(p, text, re.I) is not None, p given as the set of token
\* contents the pattern matches
Search(p, text) == \E i \in DOMAIN text : text[i].s \in p

\* sep.join(items), items a sequence of texts
RECURSIVE Join(_, _)
Join(sep, items) ==
    IF items = <<>> THEN <<>>
    ELSE IF Len(items) = 1 THEN items[1]
    ELSE items[1] \o <<sep>> \o Join(sep, Tail(items))

\* number of positions at which text t occurs in text w
Count(t, w) ==
    IF t = <<>> THEN 0
    ELSE Cardinality({i \in 1..(Len(w) - Len(t) + 1) : SubSeq(w, i, i + Len(t) - 1) = t})

Contains(t, w) == Count(t, w) > 0

\* the elements of set S in the order seq lists them
InOrder(seq, S) == SelectSeq(seq, LAMBDA x : x \in S)

Range(seq) == {seq[i] : i \in DOMAIN seq}

----------------------------------------------------------------------------
\* app/guard/topic_maps.py

None == "None"

TOPIC_RULES == <<
    [name |-> "dust_clay_in_coarse_agg",
     query_patterns |-> {"pylevidnye i glinistye chasticy v shchebne",
                         "morozostoykost i glinistye chasticy shchebnya",
                         "soderzhanie pylevidnyh i glinistyh chastic v shchebne"},
     allowed_gosts |-> <<U("ru:gost 8269.0-97"), U("gost-8269.0-1997")>>,
     forbidden_gosts |-> <<U("ru:gost 8735-88"), U("gost-8735-1988"), U("ru:gost 10060")>>],
    [name |-> "sampling_on_conveyor_coarse",
     query_patterns |-> {"otbor prob s lentochnogo konveyera"},
     allowed_gosts |-> <<U("ru:gost 8269.0-97"), U("gost-8269.0-1997")>>,
     forbidden_gosts |-> <<U("ru:gost 8735-88"), U("gost 10060")>>],
    [name |-> "modulus_fineness_sand",
     query_patterns |-> {"modul krupnosti peska"},
     allowed_gosts |-> <<U("ru:gost 8735-88"), U("gost-8735-1988")>>,
     forbidden_gosts |-> <<U("ru:gost 8269.0-97"), U("ru:gost 26633-2015")>>],
    [name |-> "cement_fineness_sieve_008",
     query_patterns |-> {"tonkost pomola cementa, sito N008"},
     allowed_gosts |-> <<U("ru:gost 310.2-76"), U("gost-310.2-1976")>>,
     forbidden_gosts |-> <<>>],
    [name |-> "frost_agg_requirements_for_concrete",
     query_patterns |-> {"morozostoykost F200 dlya shchebnya",
                         "morozostoykost i glinistye chasticy shchebnya"},
     allowed_gosts |-> <<U("ru:gost 26633-2015"), U("ru:gost 8269.0-97")>>,
     forbidden_gosts |-> <<U("ru:gost 10060")>>] >>

----------------------------------------------------------------------------
\* app/guard/validators.py

\* dict.get(k, default)
Get(d, k, default) == IF k \in DOMAIN d THEN d[k] ELSE default

\* reference hints of post_guard (post_guard.py:61-66); [minus] and [cdot]
\* stand for U+2212 and U+00B7, which the formula patterns do not accept
HintDust == U("\nEtalon: metody - otmuchivanie, pipetochnyy, mokroe proseivanie; formuly P=(m[minus]m1)/m[cdot]100 i P=(m[minus]m2)/m[cdot]100.")
HintModulus == U("\nEtalon: sita 2.5; 1.25; 0.63; 0.315; 0.16 i Mk=(R2.5+R1.25+R0.63+R0.315+R0.16)/100.")
HintCement == U("\nEtalon: 50 g; 5-7 min; kontrol vruchnuyu <= 0,05 g; sito N008.")
HintFrost == U("\nEtalon: dlya zapolnitelya F200 - 200 ciklov; poterya massy <=5%; ssylatsya na 8269.0-97/26633-2015, ne na 10060.")

DescMethods == U("Metody: otmuchivanie/pipetochnyy/mokroe proseivanie")
DescSieves == U("Sita: 2.5; 1.25; 0.63; 0.315; 0.16")
DescFrost == U("Chislo ciklov = 200; Poterya massy <= 5%; ne ssylatsya na GOST 10060 (dlya zapolnitelya)")

FormulaModulus == U("Mk=(R2 5+R1 25+R0 63+R0 315+R0 16)/100")

_all(text, pats) == \A i \in DOMAIN pats : Search(pats[i], text)

\* the tuples must and formulas of validate_methods_dust_clay; m1? and m2?
\* both accept a bare m
MustDust == <<
    {"otmuchivanie", DescMethods.s, HintDust.s},
    {"pipetochnyy", DescMethods.s, HintDust.s},
    {"mokroe proseivanie", DescMethods.s, HintDust.s} >>
FormulasDust == <<
    {"P=(m-m1)/m*100", "P=(m-m)/m*100"},
    {"P=(m-m2)/m*100", "P=(m-m)/m*100"} >>

validate_methods_dust_clay(answer) ==
    LET must == MustDust
        formulas == FormulasDust
    IN  [ok |-> _all(answer, must) /\ _all(answer, formulas),
         \* [desc][:(_all(answer, must) is False)]
         missing |-> SubSeq(<<DescMethods>>, 1, IF _all(answer, must) = FALSE THEN 1 ELSE 0),
         formulas |-> _all(answer, formulas)]

\* the tuple sieves and the pattern formula of validate_modulus_fineness;
\* 2[,\.]?\s*5 also finds the 25 of 1,25
SievesModulus == <<
    {"2,5", "1,25", FormulaModulus.s, HintModulus.s, DescSieves.s},
    {"1,25", FormulaModulus.s, HintModulus.s, DescSieves.s},
    {"0,63", FormulaModulus.s, HintModulus.s, DescSieves.s},
    {"0,315", FormulaModulus.s, HintModulus.s, DescSieves.s},
    {"0,16", FormulaModulus.s, HintModulus.s, DescSieves.s} >>
FormulaModulusPattern == {FormulaModulus.s}

validate_modulus_fineness(answer) ==
    LET sieves == SievesModulus
        formula == FormulaModulusPattern
    IN  [ok |-> _all(answer, sieves) /\ Search(formula, answer),
         missing |-> IF _all(answer, sieves) THEN <<>> ELSE <<DescSieves>>,
         formula |-> Search(formula, answer)]

\* the tuple need of validate_cement_sieve_008: re is the pattern's own
\* text, m what it matches
NeedCement == <<
    [re |-> L("50\\s*g"), m |-> {"50 g", HintCement.s}],
    [re |-> L("5\\s*[--]\\s*7\\s*min"), m |-> {"5-7 min", HintCement.s}],
    [re |-> L("0[,\\.]?05\\s*g"), m |-> {"0,05 g", HintCement.s}],
    [re |-> L("sito\\s*N\\s*0?08"), m |-> {"sito N008", "tonkost pomola cementa, sito N008", HintCement.s}] >>

validate_cement_sieve_008(answer) ==
    LET need == NeedCement
        unmatched == SelectSeq(need, LAMBDA p : ~Search(p.m, answer))
    IN  [ok |-> \A i \in DOMAIN need : Search(need[i].m, answer),
         missing |-> [i \in DOMAIN unmatched |-> unmatched[i].re]]

\* the patterns cycles, massloss and wrong_10060 of validate_frost_F200_agg
CyclesFrost == {"200 ciklov", DescFrost.s, HintFrost.s}
MasslossFrost == {"poterya massy ne bolee 5%", DescFrost.s, HintFrost.s}
Wrong10060Frost == {"ru:gost 10060", DescFrost.s}

validate_frost_F200_agg(answer) ==
    LET cycles == CyclesFrost
        massloss == MasslossFrost
        wrong_10060 == Wrong10060Frost
        ok == Search(cycles, answer) /\ Search(massloss, answer) /\ ~Search(wrong_10060, answer)
    IN  [ok |-> ok,
         missing |-> IF ok THEN <<>> ELSE <<DescFrost>>]

----------------------------------------------------------------------------
\* app/guard/post_guard.py

\* a Python value handed over in used_standards: a str, or the dict that
\* _sources_from_chunks builds (of which only standard_number is kept)
PyS(tok) == [kind |-> "str", val |-> tok]
PyD(tok) == [kind |-> "dict", val |-> tok]

\* str(v)
PyStr(v) ==
    IF v.kind = "str" THEN <<v.val>>
    ELSE <<L("{'document_name': .., 'standard_number': '"), v.val, L("', 'year': .., ..}")>>

\* re.I search of the rule's query pattern
RuleMatches(rule, query) == Search(rule.query_patterns, query)

\* the last matching rule instead of the first
_detect_topic_last(query) ==
    LET hits == {i \in DOMAIN TOPIC_RULES : RuleMatches(TOPIC_RULES[i], query)}
    IN  IF hits = {} THEN None
        ELSE TOPIC_RULES[CHOOSE i \in hits : \A j \in hits : j <= i].name

_detect_topic(query) ==
    LET hits == {i \in DOMAIN TOPIC_RULES : RuleMatches(TOPIC_RULES[i], query)}
    IN  IF hits = {} THEN None
        ELSE TOPIC_RULES[CHOOSE i \in hits : \A j \in hits : i <= j].name

\* allowed sources looked at before the forbidden ones
_check_sources_allow_first(topic, used_standards, ord) ==
    LET rules == {i \in DOMAIN TOPIC_RULES : TOPIC_RULES[i].name = topic}
    IN  IF rules = {} THEN [ok |-> TRUE, reason |-> <<>>]
        ELSE
        LET rule == TOPIC_RULES[CHOOSE i \in rules : \A j \in rules : i <= j]
            used == {Lower(PyStr(used_standards[i])) : i \in DOMAIN used_standards}
            allow == {Lower(<<rule.allowed_gosts[i]>>) : i \in DOMAIN rule.allowed_gosts}
            forbid == {Lower(<<rule.forbidden_gosts[i]>>) : i \in DOMAIN rule.forbidden_gosts}
        IN  IF (used \cap allow) # {} THEN [ok |-> TRUE, reason |-> <<>>]
            ELSE IF (used \cap forbid) # {}
            THEN [ok |-> FALSE,
                  reason |-> <<U("Zapreshchennye istochniki: ")>>
                             \o Join(L(", "), InOrder(ord, used \cap forbid))]
            ELSE [ok |-> FALSE,
                  reason |-> <<U("Net dopustimyh istochnikov (ozhidalis: ")>>
                             \o Join(L(", "), [i \in DOMAIN rule.allowed_gosts |-> <<rule.allowed_gosts[i]>>])
                             \o <<L(")")>>]

\* ord: the order in which Python iterates the set used & forbid
_check_sources(topic, used_standards, ord) ==
    LET rules == {i \in DOMAIN TOPIC_RULES : TOPIC_RULES[i].name = topic}
    IN  IF rules = {} THEN [ok |-> TRUE, reason |-> <<>>]
        ELSE
        LET rule == TOPIC_RULES[CHOOSE i \in rules : \A j \in rules : i <= j]
            used == {Lower(PyStr(used_standards[i])) : i \in DOMAIN used_standards}
            allow == {Lower(<<rule.allowed_gosts[i]>>) : i \in DOMAIN rule.allowed_gosts}
            forbid == {Lower(<<rule.forbidden_gosts[i]>>) : i \in DOMAIN rule.forbidden_gosts}
        IN  IF (used \cap forbid) # {}
            THEN [ok |-> FALSE,
                  reason |-> <<U("Zapreshchennye istochniki: ")>>
                             \o Join(L(", "), InOrder(ord, used \cap forbid))]
            ELSE IF (used \cap allow) = {}
            THEN [ok |-> FALSE,
                  reason |-> <<U("Net dopustimyh istochnikov (ozhidalis: ")>>
                             \o Join(L(", "), [i \in DOMAIN rule.allowed_gosts |-> <<rule.allowed_gosts[i]>>])
                             \o <<L(")")>>]
            ELSE [ok |-> TRUE, reason |-> <<>>]

_validate(topic, answer_text) ==
    IF topic = "dust_clay_in_coarse_agg" THEN validate_methods_dust_clay(answer_text)
    ELSE IF topic = "modulus_fineness_sand" THEN validate_modulus_fineness(answer_text)
    ELSE IF topic = "cement_fineness_sieve_008" THEN validate_cement_sieve_008(answer_text)
    ELSE IF topic = "frost_agg_requirements_for_concrete" THEN validate_frost_F200_agg(answer_text)
    ELSE [ok |-> TRUE]

\* the dict hints of post_guard, looked up with hints.get(topic, "")
hints(topic) ==
    IF topic = "dust_clay_in_coarse_agg" THEN <<HintDust>>
    ELSE IF topic = "modulus_fineness_sand" THEN <<HintModulus>>
    ELSE IF topic = "cement_fineness_sieve_008" THEN <<HintCement>>
    ELSE IF topic = "frost_agg_requirements_for_concrete" THEN <<HintFrost>>
    ELSE <<>>

\* the answer text after the source check: the banner is put in front of it
\* when the check failed
BannerText(src, answer_text) ==
    IF ~src.ok THEN <<U("> Vnimanie: ")>> \o src.reason \o <<L("\n\n")>> \o answer_text
    ELSE answer_text

\* the hint appended whether or not the content check failed
post_guard_always_hint(user_query, answer_text, used_standards, ord) ==
    LET topic == _detect_topic(user_query)
    IN  IF topic = None
        THEN [ok |-> TRUE, answer |-> answer_text, warnings |-> <<>>]
        ELSE
        LET src == _check_sources(topic, used_standards, ord)
            warnings1 == IF ~src.ok THEN <<src.reason>> ELSE <<>>
            text1 == BannerText(src, answer_text)
            val == _validate(topic, text1)
            failed == ~Get(val, "ok", TRUE)
            msg == <<U("Nedostatochnaya polnota: ")>>
                   \o Join(L("; "), [i \in DOMAIN Get(val, "missing", <<>>) |-> <<Get(val, "missing", <<>>)[i]>>])
        IN  [ok |-> src.ok /\ Get(val, "ok", TRUE),
             answer |-> text1 \o <<L("\n\n---")>> \o hints(topic),
             warnings |-> IF failed THEN Append(warnings1, msg) ELSE warnings1]

\* the unclassified answer handed back lower-cased
post_guard_lowered(user_query, answer_text, used_standards, ord) ==
    LET topic == _detect_topic(user_query)
    IN  IF topic = None
        THEN [ok |-> TRUE, answer |-> Lower(answer_text), warnings |-> <<>>]
        ELSE
        LET src == _check_sources(topic, used_standards, ord)
            warnings1 == IF ~src.ok THEN <<src.reason>> ELSE <<>>
            text1 == BannerText(src, answer_text)
            val == _validate(topic, text1)
            failed == ~Get(val, "ok", TRUE)
            msg == <<U("Nedostatochnaya polnota: ")>>
                   \o Join(L("; "), [i \in DOMAIN Get(val, "missing", <<>>) |-> <<Get(val, "missing", <<>>)[i]>>])
        IN  [ok |-> src.ok /\ Get(val, "ok", TRUE),
             answer |-> IF failed THEN text1 \o <<L("\n\n---")>> \o hints(topic) ELSE text1,
             warnings |-> IF failed THEN Append(warnings1, msg) ELSE warnings1]

post_guard(user_query, answer_text, used_standards, ord) ==
    LET topic == _detect_topic(user_query)
    IN  IF topic = None
        THEN [ok |-> TRUE, answer |-> answer_text, warnings |-> <<>>]
        ELSE
        LET src == _check_sources(topic, used_standards, ord)
            warnings1 == IF ~src.ok THEN <<src.reason>> ELSE <<>>
            text1 == BannerText(src, answer_text)
            val == _validate(topic, text1)
            failed == ~Get(val, "ok", TRUE)
            msg == <<U("Nedostatochnaya polnota: ")>>
                   \o Join(L("; "), [i \in DOMAIN Get(val, "missing", <<>>) |-> <<Get(val, "missing", <<>>)[i]>>])
        IN  [ok |-> src.ok /\ Get(val, "ok", TRUE),
             answer |-> IF failed THEN text1 \o <<L("\n\n---")>> \o hints(topic) ELSE text1,
             warnings |-> IF failed THEN Append(warnings1, msg) ELSE warnings1]

----------------------------------------------------------------------------
\* app/rag.py: the embedding-model registry

\* None of an Optional[int]; the code tests these values for truth, and no
\* vector has zero components
NoDims == 0

MODEL_TO_DIMS ==
    [m \in {"text-embedding-3-small", "text-embedding-3-large"} |->
        IF m = "text-embedding-3-small" THEN 1536 ELSE 3072]

DIMS_TO_MODEL ==
    [d \in {MODEL_TO_DIMS[m] : m \in DOMAIN MODEL_TO_DIMS} |->
        CHOOSE m \in DOMAIN MODEL_TO_DIMS : MODEL_TO_DIMS[m] = d]

\* _detect_db_vector_dims: cache is _DB_VECTOR_DIMS, from_column and
\* from_rows what the two reads give (NoDims for None)
_detect_db_vector_dims(cache, from_column, from_rows) ==
    IF cache # NoDims THEN cache
    ELSE IF from_column # NoDims THEN from_column
    ELSE from_rows

\* _resolve_embed_model: cache is _EMBED_MODEL_RESOLVED, env the model of
\* the environment, db_dims what _detect_db_vector_dims returned
_resolve_embed_model(cache, env, db_dims) ==
    IF cache # None THEN cache
    ELSE
    LET env_model_ == env
        db_model == IF db_dims # NoDims THEN Get(DIMS_TO_MODEL, db_dims, None) ELSE None
    IN  IF db_model # None /\ env_model_ # None /\ Get(MODEL_TO_DIMS, env_model_, NoDims) # db_dims
        THEN db_model
        ELSE IF env_model_ # None THEN env_model_
        ELSE IF db_model # None THEN db_model
        ELSE "text-embedding-3-small"

----------------------------------------------------------------------------
\* Inputs of the guard

Queries == {
    <<L("pylevidnye i glinistye chasticy v shchebne")>>,
    <<L("otbor prob s lentochnogo konveyera")>>,
    <<L("modul krupnosti peska")>>,
    <<L("tonkost pomola cementa, sito N008")>>,
    <<U("morozostoykost F200 dlya shchebnya")>>,
    <<L("morozostoykost i glinistye chasticy shchebnya")>>,
    <<L("prochnost betona na szhatie")>> }

\* what an answer to the query may be made of, in the order of appearance
AnswerVocabulary(query) ==
    LET topic == _detect_topic(query)
    IN  IF topic = "dust_clay_in_coarse_agg"
        THEN <<L("otmuchivanie"), L("pipetochnyy"), L("mokroe proseivanie"),
               U("P=(m-m1)/m*100"), U("P=(m-m2)/m*100"), HintDust>>
        ELSE IF topic = "modulus_fineness_sand"
        THEN <<L("2,5"), L("1,25"), L("0,63"), L("0,315"), L("0,16"), FormulaModulus>>
        ELSE IF topic = "cement_fineness_sieve_008"
        THEN <<L("50 g"), L("5-7 min"), L("0,05 g"), L("sito N008"), HintCement>>
        ELSE IF topic = "sampling_on_conveyor_coarse"
        THEN <<L("tochechnye proby"), U("ru:gost 8269.0-97")>>
        ELSE <<L("200 ciklov"), L("poterya massy ne bolee 5%"), U("ru:gost 10060"), HintFrost>>

Answers(query) ==
    LET voc == AnswerVocabulary(query)
    IN  {InOrder(voc, S) : S \in SUBSET Range(voc)}

UsedPool == <<
    PyS(U("ru:gost 8269.0-97")), PyS(L("ru:gost 8269.0-97")),
    PyS(U("ru:gost 8735-88")), PyS(U("gost-8735-1988")),
    PyS(U("ru:gost 10060")), PyS(L("ru:gost 10060")), PyS(U("gost 10060")),
    PyS(U("ru:gost 26633-2015")), PyS(U("ru:gost 310.2-76")),
    PyS(U("ru:gost 7473-2010")),
    PyD(U("ru:gost 8269.0-97")), PyD(U("ru:gost 10060")) >>

UsedLists ==
    {InOrder(UsedPool, S) : S \in {T \in SUBSET Range(UsedPool) : Cardinality(T) <= MaxUsed}}

\* seq without the repetitions of its elements
RECURSIVE Dedup(_)
Dedup(seq) ==
    IF seq = <<>> THEN <<>>
    ELSE LET front == Dedup(SubSeq(seq, 1, Len(seq) - 1))
             last == seq[Len(seq)]
         IN  IF last \in Range(front) THEN front ELSE Append(front, last)

\* the lower-cased strs of the pool, and the same reversed
PoolOrder == Dedup([i \in DOMAIN UsedPool |-> Lower(PyStr(UsedPool[i]))])

Reverse(seq) == [i \in DOMAIN seq |-> seq[Len(seq) + 1 - i]]

SetOrders == {PoolOrder, Reverse(PoolOrder)}

NoDict == [none |-> TRUE]

----------------------------------------------------------------------------
\* Inputs of a query: what retrieval and the generator may hand back

\* rag.Chunk, of which text and standard_number are kept
ChunkPool == <<
    [text |-> <<L("soderzhanie pylevidnyh i glinistyh chastic v shchebne")>>,
     standard_number |-> U("ru:gost 8269.0-97")],
    [text |-> <<L("shcheben iz plotnyh gornyh porod")>>,
     standard_number |-> U("ru:gost 8267-93")] >>

ChunkLists ==
    {InOrder(ChunkPool, S) : S \in {T \in SUBSET Range(ChunkPool) : Cardinality(T) <= MaxChunks}}

\* response.choices[0].message.content of the generation service
GenAnswers == {
    <<L("v baze net otveta")>>,
    <<L("otmuchivanie"), L("pipetochnyy"), L("mokroe proseivanie")>>,
    <<L("otmuchivanie"), L("pipetochnyy"), L("mokroe proseivanie"),
      U("P=(m-m1)/m*100"), U("P=(m-m2)/m*100")>>,
    <<L("200 ciklov"), L("poterya massy ne bolee 5%")>>,
    <<L("200 ciklov"), L("poterya massy ne bolee 5%"), U("ru:gost 10060")>>,
    <<U("Oshibka v uslovii: F200 otnositsya k betonu")>> }

----------------------------------------------------------------------------
\* app/chat_service.py, app/main.py: what the entry points build

_sources_from_chunks(cs) == [i \in DOMAIN cs |-> PyD(cs[i].standard_number)]

NoContext == <<U("Net konkretnoy informacii v baze znaniy.")>>

\* full_prompt of run_chat_sync
full_prompt_sync(cs, query) ==
    LET context_used == [i \in DOMAIN cs |-> cs[i].text]
        context_text == IF context_used # <<>> THEN Join(L("\n\n"), context_used) ELSE NoContext
    IN  <<U("Ty - professionalnyy tehnicheskiy ekspert po standartam GOST/SP. Zhestkie pravila: .. Kontekst:\n")>>
        \o context_text \o <<U("\n\nVopros:\n")>> \o query

\* full_prompt of chat_endpoint
full_prompt_chat(cs, query) ==
    LET parts == [i \in DOMAIN cs |-> <<U("Otryvok:\n")>> \o cs[i].text]
        context_text == IF Join(L("\n\n"), parts) # <<>> THEN Join(L("\n\n"), parts) ELSE NoContext
    IN  <<U("Ty - professionalnyy tehnicheskiy ekspert po standartam GOST/SP/SNiP. Pravila: .. Kontekst:\n")>>
        \o context_text \o <<U("\n\nZapros polzovatelya:\n")>> \o query

\* the arguments the entry point calls call_llm with
LlmPrompt(e, cs, query) ==
    IF e = "run_chat_sync" THEN full_prompt_sync(cs, query) ELSE full_prompt_chat(cs, query)
LlmUsedSources(e, cs) ==
    IF e = "run_chat_sync" THEN _sources_from_chunks(cs) ELSE <<>>

\* the answer the entry point's except branch puts in place of call_llm's
ErrorAnswer(e) ==
    IF e = "run_chat_sync" THEN <<U("Oshibka LLM: "), L("<exception text>")>>
    ELSE <<U("Oshibka generacii otveta. Poprobuyte pozzhe.")>>

----------------------------------------------------------------------------
\* app/llm.py

InitialMessages(prompt) == <<
    [role |-> "system",
     content |-> <<U("Ty assistent po GOSTam i stroitelnym normativam. Bud tochen v cifrah.")>>],
    [role |-> "user", content |-> prompt] >>

\* bool(d) of a dict
PyTruthy(d) == DOMAIN d # {}

\* iterating a dict yields its keys in insertion order; keys of the dict
\* post_guard returns
PyIterKeys(d) ==
    SelectSeq(<<"ok", "answer", "warnings">>, LAMBDA k : k \in DOMAIN d)

\* correction_prompt: warnings is what post_guard returned, a dict, and
\* '; '.join iterates it
correction_prompt(warnings) ==
    LET it == PyIterKeys(warnings)
    IN  <<U("V tvoem otvete naydeny fakticheskie netochnosti:\n")>>
        \o Join(L("; "), [i \in DOMAIN it |-> <<L(it[i])>>])
        \o <<U("\n\nPozhaluysta, perepishi otvet, ispraviv eti oshibki i ssylayas na vernye punkty GOST.")>>

----------------------------------------------------------------------------
\* The guard applied to every input

\* the variables of the part of the system a specification leaves out
GuardIdle ==
    /\ g_pc = "off" /\ g_in = NoDict /\ g_topic = None
    /\ g_src = NoDict /\ g_val = NoDict /\ g_out = NoDict
QueryIdle ==
    /\ pc = "off" /\ entry = None /\ user_q = <<>> /\ chunks = <<>>
    /\ messages = <<>> /\ calls = <<>> /\ outcomes = <<>> /\ answer0 = <<>>
    /\ verdict = NoDict /\ llm_ret = NoDict /\ final = NoDict
    /\ request_row = None
SearchIdle ==
    /\ env_model = None /\ column_dims = NoDims /\ rows = {}
    /\ _DB_VECTOR_DIMS = NoDims /\ _EMBED_MODEL_RESOLVED = None
    /\ s_pc = "off" /\ s_args = NoDict /\ s_db_dims = NoDims /\ s_model = None
    /\ s_emb_len = 0 /\ embed_calls = <<>> /\ dense_queries = <<>>
    /\ s_result = <<>> /\ s_raised = None /\ s_done = 0

SplitIdle == c_pc = "off" /\ c_in = NoDict /\ c_out = <<>>
ResolveIdle == r_pc = <<>> /\ r_dims = <<>> /\ r_ret = <<>>
IngestIdle ==
    /\ i_schema = NoDict /\ i_docs = {} /\ i_chunks = {}
    /\ i_next_id = 0 /\ i_started = 0 /\ i_run = <<>>
TelegramIdle ==
    /\ t_module = None /\ t_secret = "" /\ t_log = <<>> /\ t_tasks = <<>>
    /\ t_mode = <<>> /\ t_last = <<>> /\ t_sent = 0 /\ t_chat = "idle"
ExtraIdle == SplitIdle /\ ResolveIdle /\ IngestIdle /\ TelegramIdle

InitGuard ==
    /\ g_pc = "call"
    /\ \E q \in Queries : \E a \in Answers(q) : \E u \in UsedLists : \E o \in SetOrders :
          g_in = [user_query |-> q, answer_text |-> a, used_standards |-> u, ord |-> o]
    /\ g_topic = None
    /\ g_src = NoDict
    /\ g_val = NoDict
    /\ g_out = NoDict
    /\ QueryIdle
    /\ SearchIdle
    /\ ExtraIdle

GuardCall ==
    /\ g_pc = "call"
    /\ LET topic == _detect_topic(g_in.user_query)
           src == _check_sources(topic, g_in.used_standards, g_in.ord)
       IN  /\ g_topic' = topic
           /\ g_src' = IF topic = None THEN NoDict ELSE src
           /\ g_val' = IF topic = None THEN NoDict
                       ELSE _validate(topic, BannerText(src, g_in.answer_text))
    /\ g_out' = post_guard(g_in.user_query, g_in.answer_text, g_in.used_standards, g_in.ord)
    /\ g_pc' = "returned"
    /\ UNCHANGED g_in
    /\ UNCHANGED <<pvars, svars, xvars>>

NextGuard == GuardCall

SpecGuard == InitGuard /\ [][NextGuard]_vars

----------------------------------------------------------------------------
\* One query through chat_endpoint or run_chat_sync

Entries == {"chat_endpoint", "run_chat_sync"}

Init ==
    /\ pc = "insert"
    /\ entry \in Entries
    /\ user_q \in Queries
    /\ chunks = <<>> /\ messages = <<>> /\ calls = <<>> /\ outcomes = <<>>
    /\ answer0 = <<>> /\ verdict = NoDict /\ llm_ret = NoDict /\ final = NoDict
    /\ request_row = None
    /\ GuardIdle
    /\ SearchIdle
    /\ ExtraIdle

\* the entry point logs the query as pending; an insert that fails leaves
\* request_id None and no row
InsertPending ==
    /\ pc = "insert"
    /\ request_row' \in {"pending", None}
    /\ pc' = "search"
    /\ UNCHANGED <<entry, user_q, chunks, messages, calls, outcomes, answer0, verdict,
                   llm_ret, final>>
    /\ UNCHANGED <<gvars, svars, xvars>>

\* search_chunks returns; the entry point builds the prompt and enters
\* call_llm, which builds messages
SearchReturns ==
    /\ pc = "search"
    /\ \E cs \in ChunkLists :
          /\ chunks' = cs
          /\ messages' = InitialMessages(LlmPrompt(entry, cs, user_q))
    /\ pc' = "llm1"
    /\ UNCHANGED <<entry, user_q, calls, outcomes, answer0, verdict, llm_ret, final>>
    /\ UNCHANGED <<request_row, gvars, svars, xvars>>

\* search_chunks raises: chat_endpoint goes on without passages,
\* run_chat_sync does not catch
SearchRaises ==
    /\ pc = "search"
    /\ IF entry = "chat_endpoint"
       THEN /\ chunks' = <<>>
            /\ messages' = InitialMessages(LlmPrompt(entry, <<>>, user_q))
            /\ pc' = "llm1"
            /\ final' = final
       ELSE /\ pc' = "raised"
            /\ final' = [raised |-> "search_chunks"]
            /\ UNCHANGED <<chunks, messages>>
    /\ UNCHANGED <<entry, user_q, calls, outcomes, answer0, verdict, llm_ret>>
    /\ UNCHANGED <<request_row, gvars, svars, xvars>>

\* the first create() returns: the guard runs, and the retry is prepared
\* when its result is truthy
FirstCallReturns ==
    /\ pc = "llm1"
    /\ \E a \in GenAnswers : \E o \in SetOrders :
          LET prompt == messages[2].content
              warnings == post_guard(prompt, a, LlmUsedSources(entry, chunks), o)
          IN  /\ answer0' = a
              /\ verdict' = warnings
              /\ IF PyTruthy(warnings)
                 THEN /\ messages' = messages \o
                            <<[role |-> "assistant", content |-> a],
                              [role |-> "user", content |-> correction_prompt(warnings)]>>
                      /\ pc' = "llm2"
                      /\ llm_ret' = llm_ret
                 ELSE /\ messages' = messages
                      /\ pc' = "returned"
                      /\ llm_ret' = [answer |-> a, usage |-> 1]
    /\ calls' = Append(calls, messages)
    /\ outcomes' = Append(outcomes, "ok")
    /\ UNCHANGED <<entry, user_q, chunks, final>>
    /\ UNCHANGED <<request_row, gvars, svars, xvars>>

\* the first create() raises and call_llm catches it to try once more
FirstCallRaises_retry ==
    /\ pc = "llm1"
    /\ calls' = Append(calls, messages)
    /\ outcomes' = Append(outcomes, "raise")
    /\ pc' = "llm2"
    /\ UNCHANGED <<entry, user_q, chunks, messages, answer0, verdict, llm_ret, final>>
    /\ UNCHANGED <<request_row, gvars, svars, xvars>>

\* the first create() raises: the exception leaves call_llm
FirstCallRaises ==
    /\ pc = "llm1"
    /\ calls' = Append(calls, messages)
    /\ outcomes' = Append(outcomes, "raise")
    /\ pc' = "llm_raised"
    /\ UNCHANGED <<entry, user_q, chunks, messages, answer0, verdict, llm_ret, final>>
    /\ UNCHANGED <<request_row, gvars, svars, xvars>>

\* a while in place of the if: the retry is made again
SecondCallReturns_loop ==
    /\ pc = "llm2"
    /\ Len(calls) < 4
    /\ \E a \in GenAnswers : llm_ret' = [answer |-> a, usage |-> 2]
    /\ calls' = Append(calls, messages)
    /\ outcomes' = Append(outcomes, "ok")
    /\ pc' = "llm2"
    /\ UNCHANGED <<entry, user_q, chunks, messages, answer0, verdict, final>>
    /\ UNCHANGED <<request_row, gvars, svars, xvars>>

\* the second create() returns: call_llm returns its text
SecondCallReturns ==
    /\ pc = "llm2"
    /\ \E a \in GenAnswers : llm_ret' = [answer |-> a, usage |-> 2]
    /\ calls' = Append(calls, messages)
    /\ outcomes' = Append(outcomes, "ok")
    /\ pc' = "returned"
    /\ UNCHANGED <<entry, user_q, chunks, messages, answer0, verdict, final>>
    /\ UNCHANGED <<request_row, gvars, svars, xvars>>

\* the second create() raises: the exception leaves call_llm
SecondCallRaises ==
    /\ pc = "llm2"
    /\ calls' = Append(calls, messages)
    /\ outcomes' = Append(outcomes, "raise")
    /\ pc' = "llm_raised"
    /\ UNCHANGED <<entry, user_q, chunks, messages, answer0, verdict, llm_ret, final>>
    /\ UNCHANGED <<request_row, gvars, svars, xvars>>

\* answer.startswith("Oshibka"), with the capital letter
StartsWithError(text) ==
    /\ text # <<>>
    /\ text[1].up
    /\ text[1].s \in {"Oshibka LLM: ", "Oshibka generacii otveta. Poprobuyte pozzhe.",
                      "Oshibka v uslovii: F200 otnositsya k betonu"}

\* the status the entry point writes to its row: chat_endpoint goes by
\* llm_error, run_chat_sync by the first word of the answer
FinalStatus(e, llm_failed, answer) ==
    IF e = "chat_endpoint"
    THEN (IF llm_failed THEN "error" ELSE "success")
    ELSE (IF StartsWithError(answer) THEN "error" ELSE "success")

\* the entry point takes call_llm's result, or its exception, updates its
\* row when it has one (an update that fails is swallowed) and builds what
\* it hands back
Finish ==
    /\ pc \in {"returned", "llm_raised"}
    /\ LET answer == IF pc = "returned" THEN llm_ret.answer ELSE ErrorAnswer(entry)
       IN  \E update \in IF request_row = None THEN {"skipped"} ELSE {"ok", "failed"} :
             /\ request_row' = IF update = "ok"
                               THEN FinalStatus(entry, pc = "llm_raised", answer)
                               ELSE request_row
             /\ final' = [answer |-> answer,
                          context_used |-> [i \in DOMAIN chunks |-> chunks[i].text],
                          llm_failed |-> (pc = "llm_raised"),
                          log_update |-> update]
    /\ pc' = "done"
    /\ UNCHANGED <<entry, user_q, chunks, messages, calls, outcomes, answer0, verdict, llm_ret>>
    /\ UNCHANGED <<gvars, svars, xvars>>

Next ==
    \/ InsertPending
    \/ SearchReturns
    \/ SearchRaises
    \/ FirstCallReturns
    \/ FirstCallRaises
    \/ SecondCallReturns
    \/ SecondCallRaises
    \/ Finish

Spec == Init /\ [][Next]_vars

----------------------------------------------------------------------------
\* app/rag.py: search_chunks against an index

\* the models the environment may name; the last one is not in MODEL_TO_DIMS
EnvModels == {None, "text-embedding-3-small", "text-embedding-3-large", "text-embedding-ada-002"}

\* the rows of document_chunks joined with documents: dims is
\* vector_dims(embedding), NoDims for a NULL embedding; dist is the cosine
\* distance of the embedding to the query's vector, in tenths; lex is the
\* full-text rank of the row's text against the query, 0 for no match
RowPool == {
    [id |-> 1, document_id |-> 1, dims |-> 1536, dist |-> 2, lex |-> 5, standard_number |-> U("ru:gost 8269.0-97")],
    [id |-> 2, document_id |-> 1, dims |-> 1536, dist |-> 1, lex |-> 0, standard_number |-> U("ru:gost 8269.0-97")],
    [id |-> 3, document_id |-> 2, dims |-> 3072, dist |-> 3, lex |-> 2, standard_number |-> U("ru:gost 8735-88")],
    [id |-> 4, document_id |-> 3, dims |-> 768, dist |-> 4, lex |-> 0, standard_number |-> U("ru:gost 10060")],
    [id |-> 5, document_id |-> 2, dims |-> NoDims, dist |-> 0, lex |-> 0, standard_number |-> U("ru:gost 8735-88")],
    [id |-> 6, document_id |-> 1, dims |-> 1536, dist |-> 9, lex |-> 1, standard_number |-> U("ru:gost 8269.0-97")] }

\* an index holds whole documents, and a column declared vector(n) holds
\* vectors of n components only
Indexes ==
    {ix \in [column_dims : {NoDims, 768, 1536, 3072}, rows : SUBSET RowPool] :
        /\ \A r \in ix.rows : \A o \in RowPool :
               o.document_id = r.document_id => o \in ix.rows
        /\ ix.column_dims # NoDims =>
               \A r \in ix.rows : r.dims \in {NoDims, ix.column_dims}}

\* lengths of the vector the embedding service may return
VectorLengths == {768, 1536, 3072}

WhiteSpace == {" ", "\n", "\n\n"}

\* str.strip()
RECURSIVE Strip(_)
Strip(text) ==
    IF text = <<>> THEN <<>>
    ELSE IF text[1].s \in WhiteSpace THEN Strip(Tail(text))
    ELSE IF text[Len(text)].s \in WhiteSpace THEN Strip(SubSeq(text, 1, Len(text) - 1))
    ELSE text

\* d.standard_number ILIKE pattern, for the patterns '%code%' used here
ILike(std, pattern) ==
    \/ pattern = "%8269%" /\ std.s \in {"ru:gost 8269.0-97", "gost-8269.0-1997"}
    \/ pattern = "%8735%" /\ std.s \in {"ru:gost 8735-88", "gost-8735-1988"}

\* the call both entry points make: search_chunks(user_query, top_k=6), for
\* a query that names a standard
EntryPointArgs ==
    [query : {<<L("modul krupnosti peska po"), U("ru:gost 8735-88")>>},
     top_k : {6},
     std_pattern : {None}]

SearchArgs ==
    [query : {<<>>, <<L(" ")>>, <<L("modul krupnosti peska")>>},
     top_k : {1, 2},
     std_pattern : {None, "%8269%"}]
    \cup EntryPointArgs

\* the rows in ascending order of dist
RECURSIVE ByDistance(_)
ByDistance(rs) ==
    IF rs = {} THEN <<>>
    ELSE LET first == CHOOSE r \in rs : \A o \in rs : r.dist <= o.dist
         IN  <<first>> \o ByDistance(rs \ {first})

Max(a, b) == IF a >= b THEN a ELSE b

Prefix(seq, n) == SubSeq(seq, 1, IF n <= Len(seq) THEN n ELSE Len(seq))

\* what dense_sql selects under params
DenseRows(rs, params) ==
    Prefix(ByDistance({r \in rs :
                /\ r.dims # NoDims
                /\ r.dims = params.q_dims
                /\ (params.std_pattern = None \/ ILike(r.standard_number, params.std_pattern))}),
           params.limit)

InitSearch ==
    /\ env_model \in EnvModels
    /\ \E ix \in Indexes : column_dims = ix.column_dims /\ rows = ix.rows
    /\ _DB_VECTOR_DIMS = NoDims /\ _EMBED_MODEL_RESOLVED = None
    /\ s_pc = "idle" /\ s_args = NoDict /\ s_db_dims = NoDims /\ s_model = None
    /\ s_emb_len = 0 /\ embed_calls = <<>> /\ dense_queries = <<>>
    /\ s_result = <<>> /\ s_raised = None /\ s_done = 0
    /\ GuardIdle
    /\ QueryIdle
    /\ ExtraIdle

\* the query tested for emptiness without being stripped
BeginSearch_nostrip ==
    /\ s_pc = "idle"
    /\ s_done < MaxSearches
    /\ \E args \in SearchArgs :
          /\ s_args' = args
          /\ IF args.query = <<>>
             THEN s_pc' = "idle" /\ s_done' = s_done + 1
             ELSE s_pc' = "resolve" /\ s_done' = s_done
    /\ s_result' = <<>> /\ s_raised' = None /\ s_emb_len' = 0
    /\ UNCHANGED <<env_model, column_dims, rows, _DB_VECTOR_DIMS, _EMBED_MODEL_RESOLVED,
                   s_db_dims, s_model, embed_calls, dense_queries>>
    /\ UNCHANGED <<gvars, pvars, xvars>>

\* search_chunks is called; an empty query returns at once
BeginSearch ==
    /\ s_pc = "idle"
    /\ s_done < MaxSearches
    /\ \E args \in SearchArgs :
          /\ s_args' = args
          /\ IF Strip(args.query) = <<>>
             THEN s_pc' = "idle" /\ s_done' = s_done + 1
             ELSE s_pc' = "resolve" /\ s_done' = s_done
    /\ s_result' = <<>> /\ s_raised' = None /\ s_emb_len' = 0
    /\ UNCHANGED <<env_model, column_dims, rows, _DB_VECTOR_DIMS, _EMBED_MODEL_RESOLVED,
                   s_db_dims, s_model, embed_calls, dense_queries>>
    /\ UNCHANGED <<gvars, pvars, xvars>>

\* _embed picks its model: _resolve_embed_model, with the reads of
\* _detect_db_vector_dims when nothing is cached; a read that fails gives None
ResolveModel ==
    /\ s_pc = "resolve"
    /\ IF _EMBED_MODEL_RESOLVED # None
       THEN /\ s_model' = _resolve_embed_model(_EMBED_MODEL_RESOLVED, env_model, NoDims)
            /\ UNCHANGED <<_DB_VECTOR_DIMS, _EMBED_MODEL_RESOLVED, s_db_dims>>
       ELSE \E from_column \in {column_dims, NoDims} :
            \E from_rows \in {r.dims : r \in rows} \cup {NoDims} :
               LET db_dims == _detect_db_vector_dims(_DB_VECTOR_DIMS, from_column, from_rows)
                   m == _resolve_embed_model(_EMBED_MODEL_RESOLVED, env_model, db_dims)
               IN  /\ _DB_VECTOR_DIMS' = db_dims
                   /\ _EMBED_MODEL_RESOLVED' = m
                   /\ s_db_dims' = db_dims
                   /\ s_model' = m
    /\ s_pc' = "embed"
    /\ UNCHANGED <<env_model, column_dims, rows, s_args, s_emb_len, embed_calls,
                   dense_queries, s_result, s_raised, s_done>>
    /\ UNCHANGED <<gvars, pvars, xvars>>

\* embeddings.create() returns a vector
EmbedReturns ==
    /\ s_pc = "embed"
    /\ \E n \in VectorLengths : s_emb_len' = n
    /\ embed_calls' = Append(embed_calls, s_model)
    /\ s_pc' = "query"
    /\ UNCHANGED <<env_model, column_dims, rows, _DB_VECTOR_DIMS, _EMBED_MODEL_RESOLVED,
                   s_args, s_db_dims, s_model, dense_queries, s_result, s_raised, s_done>>
    /\ UNCHANGED <<gvars, pvars, xvars>>

\* embeddings.create() raises: the exception leaves search_chunks
EmbedRaises ==
    /\ s_pc = "embed"
    /\ embed_calls' = Append(embed_calls, s_model)
    /\ s_raised' = "APIError"
    /\ s_pc' = "idle"
    /\ s_done' = s_done + 1
    /\ UNCHANGED <<env_model, column_dims, rows, _DB_VECTOR_DIMS, _EMBED_MODEL_RESOLVED,
                   s_args, s_db_dims, s_model, s_emb_len, dense_queries, s_result>>
    /\ UNCHANGED <<gvars, pvars, xvars>>

\* the parameters search_chunks binds to dense_sql
DenseParams ==
    [q_dims |-> s_emb_len,
     std_pattern |-> s_args.std_pattern,
     limit |-> Max(s_args.top_k * 3, s_args.top_k)]

\* every row the dense query selected becomes a Chunk
DenseQuery_noslice ==
    /\ s_pc = "query"
    /\ dense_queries' = Append(dense_queries, DenseParams)
    /\ LET found == DenseRows(rows, DenseParams)
       IN  s_result' = [i \in DOMAIN found |-> found[i].id]
    /\ s_pc' = "idle"
    /\ s_done' = s_done + 1
    /\ UNCHANGED <<env_model, column_dims, rows, _DB_VECTOR_DIMS, _EMBED_MODEL_RESOLVED,
                   s_args, s_db_dims, s_model, s_emb_len, embed_calls, s_raised>>
    /\ UNCHANGED <<gvars, pvars, xvars>>

\* the dense query is executed and its first top_k rows become Chunks
DenseQuery ==
    /\ s_pc = "query"
    /\ dense_queries' = Append(dense_queries, DenseParams)
    /\ LET found == Prefix(DenseRows(rows, DenseParams), s_args.top_k)
       IN  s_result' = [i \in DOMAIN found |-> found[i].id]
    /\ s_pc' = "idle"
    /\ s_done' = s_done + 1
    /\ UNCHANGED <<env_model, column_dims, rows, _DB_VECTOR_DIMS, _EMBED_MODEL_RESOLVED,
                   s_args, s_db_dims, s_model, s_emb_len, embed_calls, s_raised>>
    /\ UNCHANGED <<gvars, pvars, xvars>>

\* the database fails on the dense query: the exception leaves search_chunks
DenseQueryRaises ==
    /\ s_pc = "query"
    /\ dense_queries' = Append(dense_queries, DenseParams)
    /\ s_raised' = "DBAPIError"
    /\ s_pc' = "idle"
    /\ s_done' = s_done + 1
    /\ UNCHANGED <<env_model, column_dims, rows, _DB_VECTOR_DIMS, _EMBED_MODEL_RESOLVED,
                   s_args, s_db_dims, s_model, s_emb_len, embed_calls, s_result>>
    /\ UNCHANGED <<gvars, pvars, xvars>>

NextSearch ==
    \/ BeginSearch
    \/ ResolveModel
    \/ EmbedReturns
    \/ EmbedRaises
    \/ DenseQuery
    \/ DenseQueryRaises

SpecSearch == InitSearch /\ [][NextSearch]_vars

----------------------------------------------------------------------------
\* app/rag.py: _resolve_embed_model entered by several threads (the
\* Telegram webhook runs run_chat_sync in the thread pool).  A thread can be
\* switched out between any two accesses to the module globals.

Resolvers == {1, 2}

\* the variables of search_chunks that no resolver touches
SearchLocals == <<s_pc, s_args, s_db_dims, s_model, s_emb_len, embed_calls,
                  dense_queries, s_result, s_raised, s_done>>

InitResolve ==
    /\ env_model \in EnvModels
    /\ \E ix \in Indexes : column_dims = ix.column_dims /\ rows = ix.rows
    /\ _DB_VECTOR_DIMS = NoDims /\ _EMBED_MODEL_RESOLVED = None
    /\ s_pc = "off" /\ s_args = NoDict /\ s_db_dims = NoDims /\ s_model = None
    /\ s_emb_len = 0 /\ embed_calls = <<>> /\ dense_queries = <<>>
    /\ s_result = <<>> /\ s_raised = None /\ s_done = 0
    /\ r_pc = [t \in Resolvers |-> "start"]
    /\ r_dims = [t \in Resolvers |-> NoDims]
    /\ r_ret = [t \in Resolvers |-> None]
    /\ GuardIdle
    /\ QueryIdle
    /\ SplitIdle
    /\ IngestIdle
    /\ TelegramIdle

ResolveFrame ==
    /\ UNCHANGED <<env_model, column_dims, rows, SearchLocals>>
    /\ UNCHANGED <<gvars, pvars, cvars, ivars, tvars>>

\* if _EMBED_MODEL_RESOLVED: return it; else go on to _detect_db_vector_dims
CheckModelCache(t) ==
    /\ r_pc[t] = "start"
    /\ IF _EMBED_MODEL_RESOLVED # None
       THEN /\ r_ret' = [r_ret EXCEPT ![t] = _EMBED_MODEL_RESOLVED]
            /\ r_pc' = [r_pc EXCEPT ![t] = "done"]
       ELSE /\ r_ret' = r_ret
            /\ r_pc' = [r_pc EXCEPT ![t] = "dims"]
    /\ UNCHANGED <<r_dims, _DB_VECTOR_DIMS, _EMBED_MODEL_RESOLVED>>
    /\ ResolveFrame

\* if _DB_VECTOR_DIMS is not None: return it
CheckDimsCache(t) ==
    /\ r_pc[t] = "dims"
    /\ IF _DB_VECTOR_DIMS # NoDims
       THEN /\ r_dims' = [r_dims EXCEPT ![t] = _DB_VECTOR_DIMS]
            /\ r_pc' = [r_pc EXCEPT ![t] = "store"]
       ELSE /\ r_dims' = r_dims
            /\ r_pc' = [r_pc EXCEPT ![t] = "column"]
    /\ UNCHANGED <<r_ret, _DB_VECTOR_DIMS, _EMBED_MODEL_RESOLVED>>
    /\ ResolveFrame

\* _detect_db_vector_dims_from_column: the declared width, None when the
\* column is plain vector or the read fails
ReadColumn(t) ==
    /\ r_pc[t] = "column"
    /\ \E from_column \in {column_dims, NoDims} :
          /\ r_dims' = [r_dims EXCEPT ![t] = from_column]
          /\ r_pc' = [r_pc EXCEPT ![t] = IF from_column = NoDims THEN "rows" ELSE "write"]
    /\ UNCHANGED <<r_ret, _DB_VECTOR_DIMS, _EMBED_MODEL_RESOLVED>>
    /\ ResolveFrame

\* _detect_db_vector_dims_from_rows: the width of one stored vector (LIMIT 1
\* without an order), None when there is none or the read fails
ReadRows(t) ==
    /\ r_pc[t] = "rows"
    /\ \E from_rows \in {r.dims : r \in rows} \cup {NoDims} :
          r_dims' = [r_dims EXCEPT ![t] = from_rows]
    /\ r_pc' = [r_pc EXCEPT ![t] = "write"]
    /\ UNCHANGED <<r_ret, _DB_VECTOR_DIMS, _EMBED_MODEL_RESOLVED>>
    /\ ResolveFrame

\* _DB_VECTOR_DIMS = dims
WriteDims(t) ==
    /\ r_pc[t] = "write"
    /\ _DB_VECTOR_DIMS' = r_dims[t]
    /\ r_pc' = [r_pc EXCEPT ![t] = "store"]
    /\ UNCHANGED <<r_dims, r_ret, _EMBED_MODEL_RESOLVED>>
    /\ ResolveFrame

\* _EMBED_MODEL_RESOLVED = the model chosen from env_model and db_dims
StoreModel(t) ==
    /\ r_pc[t] = "store"
    /\ _EMBED_MODEL_RESOLVED' = _resolve_embed_model(None, env_model, r_dims[t])
    /\ r_pc' = [r_pc EXCEPT ![t] = "return"]
    /\ UNCHANGED <<r_dims, r_ret, _DB_VECTOR_DIMS>>
    /\ ResolveFrame

\* return _EMBED_MODEL_RESOLVED: the global is read again
ReturnModel(t) ==
    /\ r_pc[t] = "return"
    /\ r_ret' = [r_ret EXCEPT ![t] = _EMBED_MODEL_RESOLVED]
    /\ r_pc' = [r_pc EXCEPT ![t] = "done"]
    /\ UNCHANGED <<r_dims, _DB_VECTOR_DIMS, _EMBED_MODEL_RESOLVED>>
    /\ ResolveFrame

NextResolve ==
    \E t \in Resolvers :
        \/ CheckModelCache(t)
        \/ CheckDimsCache(t)
        \/ ReadColumn(t)
        \/ ReadRows(t)
        \/ WriteDims(t)
        \/ StoreModel(t)
        \/ ReturnModel(t)

SpecResolve == InitResolve /\ [][NextResolve]_vars

----------------------------------------------------------------------------
\* app/ingest.py: split_text_to_chunks.  A text is a sequence of characters,
\* each a token of one character.

Chars == {L("a"), L(" "), L("\n")}

IsSpace(ch) == ch.s \in WhiteSpace

\* seq[a:b] of Python for 0 <= a, counted from 0
Slice(seq, a, b) == SubSeq(seq, a + 1, IF b <= Len(seq) THEN b ELSE Len(seq))

\* the first match of \n\s*\n in text as <<first, last>>, <<>> if none:
\* the leftmost newline followed, after white space only, by a newline,
\* and from it the longest such stretch
FirstBreak(text) ==
    LET starts == {i \in DOMAIN text :
                      /\ text[i].s = "\n"
                      /\ \E j \in (i + 1)..Len(text) :
                            /\ text[j].s = "\n"
                            /\ \A k \in (i + 1)..(j - 1) : IsSpace(text[k])}
    IN  IF starts = {} THEN <<>>
        ELSE LET i == CHOOSE x \in starts : \A y \in starts : x <= y
                 ends == {j \in (i + 1)..Len(text) :
                             /\ text[j].s = "\n"
                             /\ \A k \in (i + 1)..(j - 1) : IsSpace(text[k])}
             IN  <<i, CHOOSE x \in ends : \A y \in ends : y <= x>>

\* re.split(r"\n\s*\n", text)
RECURSIVE ReSplit(_)
ReSplit(text) ==
    LET m == FirstBreak(text)
    IN  IF m = <<>> THEN <<text>>
        ELSE <<SubSeq(text, 1, m[1] - 1)>> \o ReSplit(SubSeq(text, m[2] + 1, Len(text)))

\* [b.strip() for b in re.split(...) if b.strip()]
Blocks(text) ==
    LET parts == ReSplit(text)
        kept == SelectSeq(parts, LAMBDA b : Strip(b) # <<>>)
    IN  [i \in DOMAIN kept |-> Strip(kept[i])]

\* the pieces of a block longer than max_chars, from offset start on
RECURSIVE RoughCut(_, _, _)
RoughCut(block, start, max_chars) ==
    IF start >= Len(block) THEN <<>>
    ELSE LET piece == Strip(Slice(block, start, start + max_chars))
         IN  (IF piece # <<>> THEN <<piece>> ELSE <<>>)
             \o RoughCut(block, start + max_chars, max_chars)

ParaBreak == <<L("\n"), L("\n")>>

\* the loop of split_text_to_chunks over blocks[k..], chunks_ and current
\* being its locals chunks and current
RECURSIVE SplitLoop(_, _, _, _, _, _)
SplitLoop(blocks, k, chunks_, current, max_chars, overlap_chars) ==
    IF k > Len(blocks)
    THEN (IF current # <<>> THEN Append(chunks_, current) ELSE chunks_)
    ELSE
    LET block == blocks[k]
        candidate == IF current # <<>> THEN Strip(current \o ParaBreak \o block) ELSE block
    IN  IF Len(candidate) <= max_chars
        THEN SplitLoop(blocks, k + 1, chunks_, candidate, max_chars, overlap_chars)
        ELSE
        LET chunks1 == IF current # <<>> THEN Append(chunks_, current) ELSE chunks_
            tail == IF current # <<>> /\ overlap_chars # 0 /\ Len(current) > overlap_chars
                    THEN SubSeq(current, Len(current) - overlap_chars + 1, Len(current))
                    ELSE <<>>
        IN  IF Len(block) > max_chars
            THEN SplitLoop(blocks, k + 1, chunks1 \o RoughCut(block, 0, max_chars), <<>>,
                           max_chars, overlap_chars)
            ELSE SplitLoop(blocks, k + 1, chunks1,
                           IF tail # <<>> THEN Strip(tail \o ParaBreak \o block) ELSE block,
                           max_chars, overlap_chars)

split_text_to_chunks(text, max_chars, overlap_chars) ==
    SplitLoop(Blocks(text), 1, <<>>, <<>>, max_chars, overlap_chars)

\* the texts of at most n characters
RECURSIVE Texts(_)
Texts(n) ==
    IF n = 0 THEN {<<>>}
    ELSE LET shorter == Texts(n - 1)
         IN  shorter \cup {Append(t, ch) : t \in {x \in shorter : Len(x) = n - 1}, ch \in Chars}

SplitArgs ==
    {a \in [text : Texts(MaxTextLen), max_chars : 1..MaxMaxChars, overlap_chars : 0..(MaxMaxChars - 1)] :
        a.overlap_chars < a.max_chars}

InitSplit ==
    /\ c_pc = "call"
    /\ c_in \in SplitArgs
    /\ c_out = <<>>
    /\ GuardIdle
    /\ QueryIdle
    /\ SearchIdle
    /\ ResolveIdle
    /\ IngestIdle
    /\ TelegramIdle

SplitCall ==
    /\ c_pc = "call"
    /\ c_out' = split_text_to_chunks(c_in.text, c_in.max_chars, c_in.overlap_chars)
    /\ c_pc' = "returned"
    /\ UNCHANGED c_in
    /\ UNCHANGED <<gvars, pvars, svars, rvars, ivars, tvars>>

NextSplit == SplitCall

SpecSplit == InitSplit /\ [][NextSplit]_vars

----------------------------------------------------------------------------
\* app/ingest.py: ingest_pdf, run by processes that share one database
\* (bulk_ingest_all.py calls it once per PDF; two scripts can run at once).
\* A document row is [id, standard_number]; the key (standard_number, year)
\* is one value here.  A chunk row is [doc, idx, dims], dims being the width
\* of its embedding.

Ingesters == {1, 2}

StandardKeys == {"ru:gost 8267-93", "ru:gost 26633-2015"}

\* ingest.py reads EMBED_MODEL from the environment of its process
IngestModels == DOMAIN MODEL_TO_DIMS

\* src creates neither documents nor document_chunks: whether the key is
\* unique, whether document_id is a foreign key, and whether the embedding
\* column has a declared width (rag.py reads 'vector(1536)' as well as
\* 'vector') is up to the database the program is pointed at
Schemas ==
    [unique_key : BOOLEAN, chunk_fk : BOOLEAN,
     column_dims : {NoDims} \cup {MODEL_TO_DIMS[m] : m \in IngestModels}]

NoRun == [pc |-> "idle"]

InitIngest ==
    /\ i_schema \in Schemas
    /\ i_docs = {} /\ i_chunks = {}
    /\ i_next_id = 1 /\ i_started = 0
    /\ i_run = [p \in Ingesters |-> NoRun]
    /\ GuardIdle
    /\ QueryIdle
    /\ SearchIdle
    /\ SplitIdle
    /\ ResolveIdle
    /\ TelegramIdle

IngestFrame == UNCHANGED <<gvars, pvars, svars, cvars, rvars, tvars>>

\* ingest_pdf is called; with no page extracted it returns at once
StartIngest(p) ==
    /\ i_run[p].pc \in {"idle", "done", "raised"}
    /\ i_started < MaxIngests
    /\ i_started' = i_started + 1
    /\ \E std \in StandardKeys, replace \in BOOLEAN, model \in IngestModels,
          n \in 0..MaxRunChunks, pages \in BOOLEAN :
          i_run' = [i_run EXCEPT ![p] =
                       IF ~pages
                       THEN [pc |-> "done"]
                       ELSE [pc |-> "detect", standard_number |-> std,
                             replace_existing |-> replace, EMBED_MODEL |-> model,
                             batch_size |-> BatchSize, todo |-> n, model_dims |-> NoDims,
                             target |-> 0, doc_id |-> 0, chunk_index |-> 0,
                             buffer_params |-> <<>>]]
    /\ UNCHANGED <<i_schema, i_docs, i_chunks, i_next_id>>
    /\ IngestFrame

\* detect_existing_vector_dims: the width of one committed vector
detect_existing_vector_dims ==
    IF i_chunks = {} THEN {NoDims} ELSE {c.dims : c \in i_chunks}

\* existing_dims against the width of the probe embedding
DetectDims(p) ==
    /\ i_run[p].pc = "detect"
    /\ \E existing_dims \in detect_existing_vector_dims :
          LET run == i_run[p]
              model_dims == MODEL_TO_DIMS[run.EMBED_MODEL]
          IN  i_run' = [i_run EXCEPT ![p] =
                  IF existing_dims # NoDims /\ existing_dims # model_dims
                  THEN [pc |-> "raised"]
                  ELSE [run EXCEPT !.model_dims = model_dims,
                                   !.pc = IF run.replace_existing THEN "select" ELSE "insert"]]
    /\ UNCHANGED <<i_schema, i_docs, i_chunks, i_next_id, i_started>>
    /\ IngestFrame

\* delete_document_if_exists, its SELECT id ... LIMIT 1
SelectExisting(p) ==
    /\ i_run[p].pc = "select"
    /\ LET found == {d.id : d \in {e \in i_docs : e.standard_number = i_run[p].standard_number}}
       IN  \E id \in (IF found = {} THEN {0} ELSE found) :
              i_run' = [i_run EXCEPT ![p] = [i_run[p] EXCEPT !.target = id, !.pc = "insert"]]
    /\ UNCHANGED <<i_schema, i_docs, i_chunks, i_next_id, i_started>>
    /\ IngestFrame

\* the two DELETEs of delete_document_if_exists, INSERT INTO documents and
\* the commit that makes them visible
InsertDocument(p) ==
    /\ i_run[p].pc = "insert"
    /\ LET run == i_run[p]
           docs1 == {d \in i_docs : d.id # run.target}
           chunks1 == {c \in i_chunks : c.doc # run.target}
           clash == /\ i_schema.unique_key
                    /\ \E d \in docs1 : d.standard_number = run.standard_number
       IN  IF clash
           THEN /\ i_run' = [i_run EXCEPT ![p] = [pc |-> "raised"]]
                /\ UNCHANGED <<i_docs, i_chunks, i_next_id>>
           ELSE /\ i_docs' = docs1 \cup {[id |-> i_next_id, standard_number |-> run.standard_number]}
                /\ i_chunks' = chunks1
                /\ i_next_id' = i_next_id + 1
                /\ i_run' = [i_run EXCEPT ![p] = [run EXCEPT !.doc_id = i_next_id, !.pc = "chunks"]]
    /\ UNCHANGED <<i_schema, i_started>>
    /\ IngestFrame

\* the rows db.execute(ins_chunk, buffer_params) adds
BufferRows(run, buf) ==
    {[doc |-> run.doc_id, idx |-> run.chunk_index - Len(buf) + k - 1, dims |-> buf[k]] :
        k \in DOMAIN buf}

\* the database takes the rows of the buffer
InsertAccepted(run, buf) ==
    /\ i_schema.column_dims # NoDims => \A k \in DOMAIN buf : buf[k] = i_schema.column_dims
    /\ i_schema.chunk_fk => \E d \in i_docs : d.id = run.doc_id

\* one raw_chunk: embed_text, the width check, the append, and the insert of
\* a full buffer
EmbedChunk(p) ==
    /\ i_run[p].pc = "chunks"
    /\ i_run[p].todo > 0
    /\ \E width \in {MODEL_TO_DIMS[m] : m \in IngestModels} :
          LET run == i_run[p]
              buf == Append(run.buffer_params, width)
              after == [run EXCEPT !.todo = @ - 1, !.chunk_index = @ + 1]
          IN  IF width # run.model_dims
              THEN /\ i_run' = [i_run EXCEPT ![p] = [pc |-> "raised"]]
                   /\ i_chunks' = i_chunks
              ELSE IF Len(buf) < run.batch_size
              THEN /\ i_run' = [i_run EXCEPT ![p] = [after EXCEPT !.buffer_params = buf]]
                   /\ i_chunks' = i_chunks
              ELSE IF InsertAccepted(after, buf)
              THEN /\ i_run' = [i_run EXCEPT ![p] = [after EXCEPT !.buffer_params = <<>>]]
                   /\ i_chunks' = i_chunks \cup BufferRows(after, buf)
              ELSE /\ i_run' = [i_run EXCEPT ![p] = [pc |-> "raised"]]
                   /\ i_chunks' = i_chunks
    /\ UNCHANGED <<i_schema, i_docs, i_next_id, i_started>>
    /\ IngestFrame

\* after the last page: the rest of the buffer is inserted
FinishIngest(p) ==
    /\ i_run[p].pc = "chunks"
    /\ i_run[p].todo = 0
    /\ LET run == i_run[p]
       IN  IF run.buffer_params = <<>>
           THEN /\ i_run' = [i_run EXCEPT ![p] = [pc |-> "done"]]
                /\ i_chunks' = i_chunks
           ELSE IF InsertAccepted(run, run.buffer_params)
           THEN /\ i_run' = [i_run EXCEPT ![p] = [pc |-> "done"]]
                /\ i_chunks' = i_chunks \cup BufferRows(run, run.buffer_params)
           ELSE /\ i_run' = [i_run EXCEPT ![p] = [pc |-> "raised"]]
                /\ i_chunks' = i_chunks
    /\ UNCHANGED <<i_schema, i_docs, i_next_id, i_started>>
    /\ IngestFrame

\* embeddings.create() or a statement raises, or the process is stopped:
\* what was not committed is rolled back
IngestFails(p) ==
    /\ i_run[p].pc \in {"detect", "select", "insert", "chunks"}
    /\ i_run' = [i_run EXCEPT ![p] = [pc |-> "raised"]]
    /\ UNCHANGED <<i_schema, i_docs, i_chunks, i_next_id, i_started>>
    /\ IngestFrame

NextIngest ==
    \E p \in Ingesters :
        \/ StartIngest(p)
        \/ DetectDims(p)
        \/ SelectExisting(p)
        \/ InsertDocument(p)
        \/ EmbedChunk(p)
        \/ FinishIngest(p)
        \/ IngestFails(p)

SpecIngest == InitIngest /\ [][NextIngest]_vars

----------------------------------------------------------------------------
\* The web process: one event loop that accepts requests and runs the
\* coroutines, and a thread pool.  app/telegram_webhook.py hands each update to
\* a task of its own; app/telegram_bot.py handles it inside the request;
\* app/main.py serves /chat.  Button captions are written "button:...".

TgUsers == {1, 2}

TgTexts == {"button:Procedura", "/calc", "/calc balka", "",
            "kakoy zashchitnyy sloy betona"}

\* the secret-token header of a request, "" when it has none
Headers == {"", "s3cret"}

\* text.startswith(prefix) over TgTexts
StartsWith(text, prefix) ==
    text \in (CASE prefix = "/calc" -> {"/calc", "/calc balka"}
                [] OTHER -> {prefix})

\* _handle_update: the branch a text takes; a task type when it sets the
\* mode, "info" for the other buttons, "empty", else "question"
Branch(text) ==
    CASE text = "button:Glavnaya" -> "norm"
      [] text \in {"button:Instrukciya", "button:Rezhimy", "button:Nazad"} -> "info"
      [] text = "button:Normativka" -> "norm"
      [] text = "button:Procedura" -> "procedure"
      [] text = "button:Raschet" -> "calculation"
      [] text = "button:Pretenziya" -> "complaint"
      [] StartsWith(text, "/start") -> "norm"
      [] StartsWith(text, "/norm") -> "norm"
      [] StartsWith(text, "/proc") -> "procedure"
      [] StartsWith(text, "/calc") -> "calculation"
      [] StartsWith(text, "/claim") -> "complaint"
      [] text = "" -> "empty"
      [] OTHER -> "question"

TaskTypes == {"norm", "procedure", "calculation", "complaint"}

\* one mode for all users
ModeKey_shared(msg) == 0

\* the key of _user_mode an update reads and writes: user_id
ModeKey(msg) == msg.user

InitTelegram ==
    /\ t_module \in {"telegram_webhook", "telegram_bot"}
    /\ t_secret \in {"", "s3cret"}
    /\ t_log = <<>> /\ t_tasks = <<>> /\ t_mode = <<>> /\ t_last = <<>>
    /\ t_sent = 0 /\ t_chat = "idle"
    /\ GuardIdle
    /\ QueryIdle
    /\ SearchIdle
    /\ SplitIdle
    /\ ResolveIdle
    /\ IngestIdle

TelegramFrame ==
    /\ UNCHANGED <<t_module, t_secret>>
    /\ UNCHANGED <<gvars, pvars, svars, cvars, rvars, ivars>>

\* the event loop is free to run a handler or a task step
LoopFree == t_chat # "pipeline"

\* telegram_webhook.py, POST /telegram/webhook: the route exists only with a
\* secret set; a wrong header is answered 401; else the update becomes a task
telegram_webhook ==
    /\ t_module = "telegram_webhook"
    /\ LoopFree
    /\ Len(t_log) < MaxRequests
    /\ \E user \in TgUsers, text \in TgTexts, got \in Headers :
          LET status == IF t_secret = "" THEN 404
                        ELSE IF got # t_secret THEN 401 ELSE 200
              msg == [user |-> user, text |-> text]
              was == IF user \in DOMAIN t_last THEN t_last[user] ELSE "norm"
          IN  /\ t_log' = Append(t_log, [path |-> "/telegram/webhook", header |-> got,
                                         status |-> status])
              /\ IF status = 200
                 THEN /\ t_tasks' = Append(t_tasks, [user |-> user, text |-> text,
                                                     pc |-> "created", task_type |-> None,
                                                     expected |-> was])
                      /\ t_last' = IF Branch(text) \in TaskTypes
                                   THEN [u \in DOMAIN t_last \cup {user} |->
                                            IF u = user THEN Branch(text) ELSE t_last[u]]
                                   ELSE t_last
                 ELSE UNCHANGED <<t_tasks, t_last>>
    /\ UNCHANGED <<t_mode, t_sent, t_chat>>
    /\ TelegramFrame

\* _handle_update up to its first await; the loop starts tasks in the order
\* they were created
HandleUpdate(i) ==
    /\ LoopFree
    /\ i \in DOMAIN t_tasks
    /\ t_tasks[i].pc = "created"
    /\ \A j \in 1..(i - 1) : t_tasks[j].pc # "created"
    /\ LET t == t_tasks[i]
           b == Branch(t.text)
           key == ModeKey(t)
       IN  /\ t_mode' = IF b \in TaskTypes
                        THEN [k \in DOMAIN t_mode \cup {key} |->
                                 IF k = key THEN b ELSE t_mode[k]]
                        ELSE t_mode
           /\ t_tasks' = [t_tasks EXCEPT ![i] =
                  [t EXCEPT !.pc = IF b = "empty" THEN "done" ELSE "sending",
                            !.task_type = IF b # "question" THEN None
                                          ELSE IF key \in DOMAIN t_mode THEN t_mode[key]
                                          ELSE "norm"]]
    /\ UNCHANGED <<t_log, t_last, t_sent, t_chat>>
    /\ TelegramFrame

\* the first _tg_send_message of a task comes back; a question then goes to
\* the thread pool, and a failed send ends the task in its except branch
SendDone(i) ==
    /\ LoopFree
    /\ i \in DOMAIN t_tasks
    /\ t_tasks[i].pc = "sending"
    /\ \E ok \in BOOLEAN :
          /\ t_sent' = IF ok THEN t_sent + 1 ELSE t_sent
          /\ t_tasks' = [t_tasks EXCEPT ![i].pc =
                            IF ok /\ Branch(t_tasks[i].text) = "question" THEN "pool" ELSE "done"]
    /\ UNCHANGED <<t_log, t_mode, t_last, t_chat>>
    /\ TelegramFrame

\* run_chat_sync ends in its pool thread, with a result or an exception
PipelineReturns(i) ==
    /\ i \in DOMAIN t_tasks
    /\ t_tasks[i].pc = "pool"
    /\ t_tasks' = [t_tasks EXCEPT ![i].pc = "reply"]
    /\ UNCHANGED <<t_log, t_mode, t_last, t_sent, t_chat>>
    /\ TelegramFrame

\* the answer, or the error text, is sent
SendReply(i) ==
    /\ LoopFree
    /\ i \in DOMAIN t_tasks
    /\ t_tasks[i].pc = "reply"
    /\ t_sent' = t_sent + 1
    /\ t_tasks' = [t_tasks EXCEPT ![i].pc = "done"]
    /\ UNCHANGED <<t_log, t_mode, t_last, t_chat>>
    /\ TelegramFrame

\* telegram_bot.py, POST /telegram/webhook: the header is compared only when
\* a secret is set; the update is handled inside the request (mode commands
\* by equality, keyed by chat; anything else is sent to /chat and answered)
bot_telegram_webhook ==
    /\ t_module = "telegram_bot"
    /\ LoopFree
    /\ Len(t_log) < MaxRequests
    /\ \E chat_id \in TgUsers, text \in TgTexts, got \in Headers :
          LET status == IF t_secret # "" /\ got # t_secret THEN 403 ELSE 200
              cmd == CASE text \in {"/start", "/help", "/norm"} -> "norm"
                       [] text = "/proc" -> "procedure"
                       [] text = "/calc" -> "calculation"
                       [] text = "/claim" -> "complaint"
                       [] OTHER -> None
          IN  /\ t_log' = Append(t_log, [path |-> "/telegram/webhook", header |-> got,
                                         status |-> status])
              /\ IF status = 200 /\ text # ""
                 THEN /\ t_mode' = IF cmd = None THEN t_mode
                                   ELSE [k \in DOMAIN t_mode \cup {chat_id} |->
                                            IF k = chat_id THEN cmd ELSE t_mode[k]]
                      /\ t_sent' = t_sent + 1
                 ELSE UNCHANGED <<t_mode, t_sent>>
    /\ UNCHANGED <<t_tasks, t_last, t_chat>>
    /\ TelegramFrame

\* main.py, POST /chat: chat_endpoint is a coroutine without an await, so
\* search_chunks and call_llm run on the event loop until it returns
ChatEndpoint ==
    /\ LoopFree
    /\ Len(t_log) < MaxRequests
    /\ t_log' = Append(t_log, [path |-> "/chat", header |-> "", status |-> 200])
    /\ t_chat' = "pipeline"
    /\ UNCHANGED <<t_tasks, t_mode, t_last, t_sent>>
    /\ TelegramFrame

ChatReturns ==
    /\ t_chat = "pipeline"
    /\ t_chat' = "idle"
    /\ UNCHANGED <<t_log, t_tasks, t_mode, t_last, t_sent>>
    /\ TelegramFrame

NextTelegram ==
    \/ telegram_webhook
    \/ bot_telegram_webhook
    \/ ChatEndpoint
    \/ ChatReturns
    \/ \E i \in 1..MaxRequests :
          \/ HandleUpdate(i)
          \/ SendDone(i)
          \/ PipelineReturns(i)
          \/ SendReply(i)

SpecTelegram == InitTelegram /\ [][NextTelegram]_vars

----------------------------------------------------------------------------
\* Properties of the guard

\* the rule of a classified topic
RuleOf(topic) == TOPIC_RULES[CHOOSE i \in DOMAIN TOPIC_RULES : TOPIC_RULES[i].name = topic]

\* two texts that differ in capitalisation at most
SameIgnoringCase(a, b) == Len(a) = Len(b) /\ \A i \in DOMAIN a : a[i].s = b[i].s

\* positions of used_standards that hold a forbidden / an allowed standard
ForbiddenCited(rule, used) ==
    {i \in DOMAIN used : \E j \in DOMAIN rule.forbidden_gosts :
        SameIgnoringCase(PyStr(used[i]), <<rule.forbidden_gosts[j]>>)}
AllowedCited(rule, used) ==
    {i \in DOMAIN used : \E j \in DOMAIN rule.allowed_gosts :
        SameIgnoringCase(PyStr(used[i]), <<rule.allowed_gosts[j]>>)}

\* C8: when the cited standards hold, in any capitalisation, a standard the
\* topic forbids, the source check fails, the verdict is not accepted and
\* the reason (also the first warning) names every forbidden standard that
\* was cited, whether or not an allowed standard is cited too.
C8_ForbiddenSourceFails ==
    (g_pc = "returned" /\ g_topic # None) =>
        LET rule == RuleOf(g_topic)
            found == ForbiddenCited(rule, g_in.used_standards)
        IN  found # {} =>
                /\ g_src.ok = FALSE
                /\ g_out.ok = FALSE
                /\ Len(g_out.warnings) >= 1 /\ g_out.warnings[1] = g_src.reason
                /\ \A i \in found : \E k \in DOMAIN g_src.reason :
                       g_src.reason[k].s = g_in.used_standards[i].val.s

C8_Witness ==
    /\ g_pc = "returned" /\ g_topic # None
    /\ ForbiddenCited(RuleOf(g_topic), g_in.used_standards) # {}
    /\ AllowedCited(RuleOf(g_topic), g_in.used_standards) # {}
    /\ \E i \in DOMAIN g_in.used_standards : ~g_in.used_standards[i].val.up
    /\ g_src.ok = FALSE

\* the content markers a topic requires: m is what the marker's pattern
\* matches, desc the description the validator has for it (<<>> if none)
RequiredMarkers(topic) ==
    IF topic = "dust_clay_in_coarse_agg"
    THEN [i \in 1..3 |-> [m |-> MustDust[i], desc |-> <<DescMethods>>]]
         \o [i \in 1..2 |-> [m |-> FormulasDust[i], desc |-> <<>>]]
    ELSE IF topic = "modulus_fineness_sand"
    THEN [i \in 1..5 |-> [m |-> SievesModulus[i], desc |-> <<DescSieves>>]]
         \o <<[m |-> FormulaModulusPattern, desc |-> <<>>]>>
    ELSE IF topic = "cement_fineness_sieve_008"
    THEN [i \in 1..4 |-> [m |-> NeedCement[i].m, desc |-> <<NeedCement[i].re>>]]
    ELSE IF topic = "frost_agg_requirements_for_concrete"
    THEN <<[m |-> CyclesFrost, desc |-> <<DescFrost>>],
           [m |-> MasslossFrost, desc |-> <<DescFrost>>]>>
    ELSE <<>>

\* the text the content check is run on
CheckedText == BannerText(g_src, g_in.answer_text)

MissingMarkers ==
    {i \in DOMAIN RequiredMarkers(g_topic) : ~Search(RequiredMarkers(g_topic)[i].m, CheckedText)}

\* C9: an answer that lacks a required content marker is reported not ok
\* with a non-empty missing list that holds the description of every
\* missing marker.
C9_MissingMarkerReported ==
    (g_pc = "returned" /\ g_topic # None /\ MissingMarkers # {}) =>
        /\ Get(g_val, "ok", TRUE) = FALSE
        /\ Get(g_val, "missing", <<>>) # <<>>
        /\ \A i \in MissingMarkers :
               \A d \in Range(RequiredMarkers(g_topic)[i].desc) :
                   d \in Range(Get(g_val, "missing", <<>>))

\* the content check of the last guard call failed
ContentFailed == Get(g_val, "ok", TRUE) = FALSE

\* C10: on a classified query the guard appends the topic's reference hint
\* once, after the separator, when the content check fails, and leaves the
\* text as the source check left it when the content check passes.
C10_HintAppendedOnce ==
    (g_pc = "returned" /\ g_topic # None) =>
        LET hint == hints(g_topic)
        IN  IF ContentFailed
            THEN /\ g_out.answer = CheckedText \o <<L("\n\n---")>> \o hint
                 /\ Count(hint, g_out.answer) = Count(hint, g_in.answer_text) + 1
            ELSE /\ g_out.answer = CheckedText
                 /\ Count(hint, g_out.answer) = Count(hint, g_in.answer_text)

C10_Witness ==
    /\ g_pc = "returned" /\ g_topic # None /\ ContentFailed
    /\ Count(hints(g_topic), g_in.answer_text) = 1
    /\ Count(hints(g_topic), g_out.answer) = 2

\* positions of the rules that have a query pattern matching the query
MatchingRules(query) == {i \in DOMAIN TOPIC_RULES : RuleMatches(TOPIC_RULES[i], query)}

\* C11: the topic classified for a query is the name of the first rule, in
\* the declared order, with a pattern that matches the query, and it is
\* none exactly when no rule matches.
C11_FirstMatchingRuleWins ==
    g_pc = "returned" =>
        LET hits == MatchingRules(g_in.user_query)
        IN  /\ (g_topic = None) <=> (hits = {})
            /\ \A i \in hits : (\A j \in hits : i <= j) => g_topic = TOPIC_RULES[i].name

C11_Witness ==
    /\ g_pc = "returned"
    /\ Cardinality(MatchingRules(g_in.user_query)) >= 2
    /\ g_topic = TOPIC_RULES[1].name
    /\ 5 \in MatchingRules(g_in.user_query)

\* C12: for a query no rule matches, whatever the answer and the cited
\* standards, the guard returns ok, no warnings and the answer text it
\* was given, unchanged.
C12_UnclassifiedIsNoOp ==
    (g_pc = "returned" /\ MatchingRules(g_in.user_query) = {}) =>
        /\ g_out.ok = TRUE
        /\ g_out.warnings = <<>>
        /\ g_out.answer = g_in.answer_text

C12_Witness ==
    /\ g_pc = "returned" /\ MatchingRules(g_in.user_query) = {}
    /\ \E i \in DOMAIN g_in.answer_text : g_in.answer_text[i].up
    /\ \E i \in DOMAIN g_in.used_standards :
           g_in.used_standards[i] = PyS(U("ru:gost 10060"))
    /\ g_out.answer = g_in.answer_text

\* what the content check gives for the generated answer alone
AnswerAloneVerdict == _validate(g_topic, g_in.answer_text)

\* C26: the content verdict of a classified query is the verdict on the
\* generated answer alone, whatever standards are cited: the banner the
\* guard puts in front after a failed source check changes neither ok, nor
\* the missing list, nor whether the hint is appended.
C26_ContentVerdictIgnoresBanner ==
    (g_pc = "returned" /\ g_topic # None) =>
        /\ Get(g_val, "ok", TRUE) = Get(AnswerAloneVerdict, "ok", TRUE)
        /\ Get(g_val, "missing", <<>>) = Get(AnswerAloneVerdict, "missing", <<>>)
        /\ (g_out.answer = CheckedText) <=> Get(AnswerAloneVerdict, "ok", TRUE)

----------------------------------------------------------------------------
\* Properties of the correction orchestrator

\* C1: the generation service is called at most twice for a query.
C1_AtMostTwoCalls == Len(calls) <= 2 /\ Len(outcomes) = Len(calls)

C1_Witness == pc = "done" /\ Len(calls) = 2 /\ outcomes = <<"ok", "ok">>

\* C2: when the guard accepts the first answer, no second call is made and
\* call_llm returns the first answer as it is.
C2_AcceptedMeansOneCall ==
    (verdict # NoDict /\ verdict.ok) =>
        /\ Len(calls) = 1
        /\ pc # "llm2"
        /\ (pc \in {"returned", "done"} => llm_ret.answer = answer0)

\* the texts ws occur in text c one after the other, from position k on
RECURSIVE OccurInOrder(_, _, _)
OccurInOrder(ws, c, k) ==
    IF ws = <<>> THEN TRUE
    ELSE \E i \in k..(Len(c) - Len(ws[1]) + 1) :
            /\ SubSeq(c, i, i + Len(ws[1]) - 1) = ws[1]
            /\ OccurInOrder(Tail(ws), c, i + Len(ws[1]))

\* C3: when the guard flags the first answer, the second call is sent the
\* initial messages, then the first answer as the assistant's turn, then a
\* user turn that holds every warning of the guard, in order.
C3_CorrectionCarriesWarnings ==
    (Len(calls) >= 2 /\ verdict # NoDict /\ ~verdict.ok) =>
        /\ Len(calls[2]) = Len(calls[1]) + 2
        /\ SubSeq(calls[2], 1, Len(calls[1])) = calls[1]
        /\ calls[2][Len(calls[1]) + 1] = [role |-> "assistant", content |-> answer0]
        /\ calls[2][Len(calls[1]) + 2].role = "user"
        /\ OccurInOrder(verdict.warnings, calls[2][Len(calls[1]) + 2].content, 1)

\* C4: when the first call succeeds and the correction call fails, the
\* entry point hands back the first answer with the guard's annotations,
\* not an error answer.
C4_FallbackToFirstAnswer ==
    (pc = "done" /\ outcomes = <<"ok", "raise">>) =>
        /\ final.answer = verdict.answer
        /\ final.answer # ErrorAnswer(entry)

\* C5: when the first call fails, the guard is not run, no second call is
\* made and the entry point hands back its generation-failure answer.
C5_FirstFailureSurfaced ==
    (Len(outcomes) >= 1 /\ outcomes[1] = "raise") =>
        /\ verdict = NoDict
        /\ Len(calls) = 1
        /\ pc \in {"llm_raised", "done"}
        /\ (pc = "done" =>
               /\ final.answer # <<>>
               /\ final.llm_failed
               /\ final.answer[1] \in {U("Oshibka LLM: "), U("Oshibka generacii otveta. Poprobuyte pozzhe.")})

C5_Witness == pc = "done" /\ outcomes = <<"raise">> /\ final.answer = ErrorAnswer(entry)

----------------------------------------------------------------------------
\* Properties of the entry points

\* the text call_llm hands to post_guard as the query: its prompt, which it
\* also holds as the content of the user message
GuardedText == messages[2].content

\* the standards of the topic a text is classified into
AllowedBy(topic, std) ==
    \E j \in DOMAIN RuleOf(topic).allowed_gosts :
        RuleOf(topic).allowed_gosts[j].s = std.s
ForbiddenBy(topic, std) ==
    \E j \in DOMAIN RuleOf(topic).forbidden_gosts :
        RuleOf(topic).forbidden_gosts[j].s = std.s

\* C13: the guard classifies the user's query: the topic of a run is the
\* topic of the query text alone, the same whatever passages retrieval
\* put in the context and whatever the prompt template says.
C13_TopicFromQueryOnly ==
    verdict # NoDict =>
        /\ _detect_topic(GuardedText) = _detect_topic(user_q)
        /\ \A cs \in ChunkLists :
               _detect_topic(LlmPrompt(entry, cs, user_q)) = _detect_topic(GuardedText)

\* the first warning of a failed source check
SourceCheckFailed(v) ==
    /\ v.warnings # <<>>
    /\ v.warnings[1][1] \in {U("Zapreshchennye istochniki: "),
                              U("Net dopustimyh istochnikov (ozhidalis: ")}

\* C14: for a classified query whose retrieved passages all come from a
\* standard the topic allows, none from one it forbids, the guard's source
\* check succeeds, through chat_endpoint and through run_chat_sync.
C14_RetrievedSourcesAccepted ==
    (/\ verdict # NoDict
     /\ _detect_topic(user_q) # None
     /\ _detect_topic(GuardedText) = _detect_topic(user_q)
     /\ chunks # <<>>
     /\ \A i \in DOMAIN chunks :
            /\ AllowedBy(_detect_topic(user_q), chunks[i].standard_number)
            /\ ~ForbiddenBy(_detect_topic(user_q), chunks[i].standard_number))
    => ~SourceCheckFailed(verdict)

\* C20: when generation fails altogether, the entry point hands back its
\* marked error message, no passages and no guard warnings.
C20_FailureResultIsBare ==
    (pc = "done" /\ outcomes = <<"raise">>) =>
        /\ final.answer = ErrorAnswer(entry)
        /\ final.context_used = <<>>
        /\ verdict = NoDict

\* C21: a failure of retrieval never ends the handling of the query: the
\* entry point goes on with an empty context and calls the generator.
C21_RetrievalFailureDegrades ==
    /\ pc # "raised"
    /\ (final # NoDict => "raised" \notin DOMAIN final)

\* C27: when the handling of a query ends and the final update of its row
\* did not fail, the row inserted as pending holds success or error, and
\* it holds error exactly when generation failed.
C27_LogRowReachesTerminalStatus ==
    (/\ pc \in {"done", "raised"}
     /\ request_row # None
     /\ ~(pc = "done" /\ final.log_update = "failed")) =>
        /\ request_row \in {"success", "error"}
        /\ (request_row = "error") <=> (outcomes # <<>> /\ outcomes[Len(outcomes)] = "raise")

----------------------------------------------------------------------------
\* Properties of the registry and the embedder

\* the width MODEL_TO_DIMS registers for a model, NoDims if it has none
RegisteredDims(m) == Get(MODEL_TO_DIMS, m, NoDims)

\* C6: when the index has a dimensionality D, the model resolve() hands to
\* the embedder has that dimensionality, and no text is embedded with a
\* model of another one (a configuration error would leave s_model None
\* and embed_calls empty).
C6_ResolvedModelMatchesIndex ==
    s_db_dims # NoDims =>
        /\ (s_pc \in {"embed", "query"} => RegisteredDims(s_model) = s_db_dims)
        /\ \A i \in DOMAIN embed_calls : RegisteredDims(embed_calls[i]) = s_db_dims

\* C7: a vector whose length is not the dimensionality of the resolved
\* model stops the search with DimensionMismatch: it is never bound to a
\* dense query.
C7_WrongLengthNeverSearched ==
    (s_model \in DOMAIN MODEL_TO_DIMS) =>
        /\ (s_emb_len # 0 /\ s_emb_len # MODEL_TO_DIMS[s_model]) =>
               (s_pc = "idle" /\ s_raised = "DimensionMismatch")
        /\ \A i \in DOMAIN dense_queries : dense_queries[i].q_dims = MODEL_TO_DIMS[s_model]

\* C22: with the index and the environment unchanged, all the calls that
\* race through _resolve_embed_model return the same model, and once
\* _EMBED_MODEL_RESOLVED is set no call stores another model in it.
C22_RacersConverge ==
    [][/\ \A t, u \in Resolvers :
              (r_ret'[t] # None /\ r_ret'[u] # None) => r_ret'[t] = r_ret'[u]
       /\ (_EMBED_MODEL_RESOLVED # None => _EMBED_MODEL_RESOLVED' = _EMBED_MODEL_RESOLVED)]_vars

----------------------------------------------------------------------------
\* Properties of search_chunks

\* the row a returned chunk was made from
RowById(id) == CHOOSE r \in RowPool : r.id = id

\* the rows of the chunks the last search_chunks call returned
ReturnedRows == [i \in DOMAIN s_result |-> RowById(s_result[i])]

\* C15: search_chunks returns at most top_k passages, and no passage twice.
C15_AtMostTopKDistinct ==
    s_args # NoDict =>
        /\ Len(s_result) <= s_args.top_k
        /\ \A i, j \in DOMAIN s_result : s_result[i] = s_result[j] => i = j

C15_Witness ==
    /\ s_args # NoDict /\ s_pc = "idle" /\ dense_queries # <<>>
    /\ Len(s_result) = s_args.top_k
    /\ Len(DenseRows(rows, dense_queries[Len(dense_queries)])) > s_args.top_k

\* the candidates of the two channels for the last query: the dense ones
\* carry the score 1 - distance (in tenths), the lexical ones their rank
DenseCandidates == Range(DenseRows(rows, dense_queries[Len(dense_queries)]))
LexicalCandidates ==
    {r \in rows : /\ r.lex > 0
                  /\ (s_args.std_pattern = None \/ ILike(r.standard_number, s_args.std_pattern))}

SetMax(S) == CHOOSE x \in S : \A y \in S : y <= x
SetMin(S) == CHOOSE x \in S : \A y \in S : x <= y

\* min-max normalisation over the merged candidates, as numerator and
\* denominator; an undefined score, or a channel of one value, gives 0
Spread(S) == IF S = {} \/ SetMax(S) = SetMin(S) THEN 1 ELSE SetMax(S) - SetMin(S)
DenseScores == {10 - r.dist : r \in DenseCandidates}
LexicalScores == {r.lex : r \in LexicalCandidates}
NormDense(r) == IF r \in DenseCandidates THEN (10 - r.dist) - SetMin(DenseScores) ELSE 0
NormLexical(r) == IF r \in LexicalCandidates THEN r.lex - SetMin(LexicalScores) ELSE 0

\* 10 * Spread(DenseScores) * Spread(LexicalScores) times the fusion score
\* 0.7 * normalised dense + 0.3 * normalised lexical
FusionScaled(r) ==
    7 * NormDense(r) * Spread(LexicalScores) + 3 * NormLexical(r) * Spread(DenseScores)

\* C16: the passages search_chunks returns are ranked by the fusion score
\* 0.7 * normalised dense + 0.3 * normalised lexical: each score lies in
\* [0,1] and the returned sequence is non-increasing in it.
C16_RankedByFusionScore ==
    (s_args # NoDict /\ s_result # <<>>) =>
        /\ \A i \in DOMAIN ReturnedRows :
               /\ 0 <= FusionScaled(ReturnedRows[i])
               /\ FusionScaled(ReturnedRows[i]) <= 10 * Spread(DenseScores) * Spread(LexicalScores)
        /\ \A i, j \in DOMAIN ReturnedRows :
               i < j => FusionScaled(ReturnedRows[i]) >= FusionScaled(ReturnedRows[j])

\* C17: every passage search_chunks returns has a stored vector of the
\* dimensionality of the resolved model.
C17_OnlyResolvedDimensionality ==
    (s_model \in DOMAIN MODEL_TO_DIMS) =>
        \A i \in DOMAIN ReturnedRows : ReturnedRows[i].dims = MODEL_TO_DIMS[s_model]

\* the numeric code of a standards designation, None for other tokens
StdCode(tok) ==
    IF tok.s \in {"ru:gost 8735-88", "gost-8735-1988"} THEN "8735"
    ELSE IF tok.s \in {"ru:gost 8269.0-97", "gost-8269.0-1997"} THEN "8269"
    ELSE None

\* the codes of the standards a query names
CitedCodes(query) == {StdCode(query[i]) : i \in DOMAIN query} \ {None}

\* C18: when the query of a pipeline run names a standard by keyword and
\* code, every passage the run's search returns comes from a document whose
\* standard number contains that code, whatever its capitalisation (looked
\* at for the runs whose query vector has the resolved model's length).
C18_CitedStandardScopesSearch ==
    (/\ s_args \in EntryPointArgs
     /\ s_model \in DOMAIN MODEL_TO_DIMS
     /\ s_emb_len = MODEL_TO_DIMS[s_model]) =>
        \A code \in CitedCodes(s_args.query) : \A i \in DOMAIN ReturnedRows :
            ILike(ReturnedRows[i].standard_number, "%" \o code \o "%")

\* C19: a call with an empty or whitespace-only query returns the empty
\* list at once: no model is resolved, nothing is embedded and the index
\* is not queried.
C19_EmptyQueryTouchesNothing ==
    [][(/\ s_pc = "idle"
        /\ (s_pc' # "idle" \/ s_done' # s_done)
        /\ Strip(s_args'.query) = <<>>)
       => (/\ s_pc' = "idle"
           /\ s_done' = s_done + 1
           /\ s_result' = <<>>
           /\ s_raised' = None
           /\ embed_calls' = embed_calls
           /\ dense_queries' = dense_queries
           /\ _EMBED_MODEL_RESOLVED' = _EMBED_MODEL_RESOLVED
           /\ _DB_VECTOR_DIMS' = _DB_VECTOR_DIMS)]_vars

C19_Witness ==
    /\ s_args # NoDict /\ s_args.query = <<L(" ")>>
    /\ s_pc = "idle" /\ s_done = 2
    /\ s_result = <<>> /\ s_raised = None
    /\ Len(embed_calls) = 1 /\ Len(dense_queries) = 1

----------------------------------------------------------------------------
\* Properties of ingestion

\* C29: no chunk split_text_to_chunks returns is longer than max_chars,
\* for every text and every overlap_chars below max_chars.
C29_ChunksWithinMaxChars ==
    c_pc = "returned" =>
        \A i \in DOMAIN c_out : Len(c_out[i]) <= c_in.max_chars

\* C24: whatever ingest_pdf runs have taken place (failed ones, ones with
\* another embedding model, ones overlapping in time), all stored vectors
\* have one dimensionality.
C24_OneDimensionalityStored ==
    \A c, d \in i_chunks : c.dims = d.dims

\* C25: after any ingest runs there is at most one document row per
\* (standard_number, year) and every stored chunk belongs to a stored
\* document.
C25_NoDuplicateDocuments ==
    /\ \A d, e \in i_docs : d.standard_number = e.standard_number => d.id = e.id
    /\ \A c \in i_chunks : \E d \in i_docs : d.id = c.doc

----------------------------------------------------------------------------
\* Properties of the web process

\* a pipeline run is under way, on the event loop or in the pool
PipelineInProgress ==
    \/ t_chat = "pipeline"
    \/ \E i \in DOMAIN t_tasks : t_tasks[i].pc = "pool"

\* C23: while a query is blocked in retrieval or generation, the front end
\* can accept and start another query, whichever entry point the blocked
\* query came through.
C23_SlowQueryBlocksNoOther ==
    (PipelineInProgress /\ Len(t_log) < MaxRequests) =>
        ENABLED (ChatEndpoint \/ telegram_webhook \/ bot_telegram_webhook)

\* C28: a question of user u is processed with the task type of the last
\* mode update of u handed over before it, "norm" when there was none,
\* whatever other users sent and however the tasks interleave.
C28_QuestionUsesOwnLatestMode ==
    \A i \in DOMAIN t_tasks :
        (Branch(t_tasks[i].text) = "question" /\ t_tasks[i].pc # "created") =>
            t_tasks[i].task_type = t_tasks[i].expected

C28_Witness ==
    \E i, j, k \in DOMAIN t_tasks :
        /\ i < j /\ j < k
        /\ t_tasks[i].user = t_tasks[k].user /\ t_tasks[j].user # t_tasks[k].user
        /\ Branch(t_tasks[i].text) = "calculation"
        /\ Branch(t_tasks[j].text) = "procedure"
        /\ Branch(t_tasks[k].text) = "question"
        /\ t_tasks[j].pc = "done"
        /\ t_tasks[k].pc = "pool"
        /\ t_tasks[k].task_type = "calculation"

\* C30: a webhook request whose secret-token header differs from the
\* configured secret changes no mode, creates no task and sends nothing.
C30_WrongSecretHasNoEffect ==
    [][(/\ Len(t_log') > Len(t_log)
        /\ t_log'[Len(t_log')].path = "/telegram/webhook"
        /\ t_log'[Len(t_log')].header # t_secret)
       => UNCHANGED <<t_mode, t_tasks, t_sent>>]_vars

====
